---- MODULE Spec2Model ----
(***************************************************************************)
(* Index-fund dashboard (dashboard.py): the transaction ledger with its    *)
(* weighted-average cost basis, the forward-fill valuation lookup, the     *)
(* rolling averages of the valuation loader, the trade-signal ladder and   *)
(* the floating P/L estimate.                                              *)
(*                                                                         *)
(* Numbers.  Python floats are modelled as exact rationals [n, d] in       *)
(* lowest terms with d > 0, so rounding error of binary floating point is  *)
(* abstracted away; the epsilon 1e-6 of the cost replay is the rational    *)
(* 1/1000000.  NaN, None and a pandas Series are records with d = 0.       *)
(* Dates are day numbers; 'YYYY-MM-DD' strings order the same way.         *)
(* Transaction types: "Buy" is '买入', "Sell" is '卖出'.                   *)
(***************************************************************************)
EXTENDS Integers, Sequences, FiniteSets, TLC

VARIABLES
    cost_history,    \* calculate_index_cost: the history argument
    cost_result,     \* calculate_index_cost: the returned (total_units, total_cost)
    lookup_df,       \* find_pe_by_date: the df argument (rows of a loaded series)
    lookup_date,     \* find_pe_by_date: the target_date_str argument
    lookup_result,   \* find_pe_by_date: the returned (pe, Close)
    sig_args,        \* signal evaluation: the values the ladder reads
    sig_signal,      \* signal evaluation: the signal
    metrics_rows,    \* get_metrics_from_csv: the rows read from the file
    metrics_result,  \* get_metrics_from_csv: the returned metrics
    pl_args,         \* calculate_index_pl_metrics: s and current_close_index
    pl_result,       \* calculate_index_pl_metrics: the returned triple
    ledger_file,     \* portfolio_status.json (STATE_FILE)
    state,           \* the state dict of the latest script run
    data_files,      \* index_data: the valuation rows of each index
    strategy_params, \* st.session_state['strategy_params']
    today,           \* datetime.now().date()
    file_written,    \* save_state has written the ledger file
    signals,         \* the signal column of the overview table
    last_run,        \* history variable: the latest script run and its button
    persisted,       \* history variable: the histories last read or written
    session,         \* concurrent script runs: position and locals of each
    write_log        \* history variable: the latest open of the ledger for writing

costVars == <<cost_history, cost_result>>
lookupVars == <<lookup_df, lookup_date, lookup_result>>
sigVars == <<sig_args, sig_signal>>
metricsVars == <<metrics_rows, metrics_result>>
plVars == <<pl_args, pl_result>>
auditVars == <<last_run, persisted>>
sessVars == <<session, write_log>>
appVars == <<ledger_file, state, data_files, strategy_params, today, file_written, signals, auditVars, sessVars>>
vars == <<costVars, lookupVars, sigVars, metricsVars, plVars, appVars>>

\* a group of variables not used by the specification at hand
CostIdle == cost_history = <<>> /\ cost_result = <<>>
LookupIdle == lookup_df = <<>> /\ lookup_date = 0 /\ lookup_result = <<>>
SigIdle == sig_args = <<>> /\ sig_signal = "idle"
MetricsIdle == metrics_rows = <<>> /\ metrics_result = <<>>
PLIdle == pl_args = <<>> /\ pl_result = <<>>
SessIdle == session = <<>> /\ write_log = <<>>
AppIdle ==
    /\ ledger_file = <<>> /\ state = <<>> /\ data_files = <<>>
    /\ strategy_params = <<>> /\ today = 0 /\ file_written = FALSE
    /\ signals = <<>> /\ last_run = <<>> /\ persisted = <<>>
    /\ session = <<>> /\ write_log = <<>>

---------------------------------------------------------------------------
(* Exact rational arithmetic standing for Python float arithmetic.         *)

Abs(x) == IF x < 0 THEN -x ELSE x

RECURSIVE GCD(_, _)
GCD(a, b) == IF b = 0 THEN a ELSE GCD(b, a % b)

RNorm(n, d) ==
    LET g == GCD(Abs(n), d)
    IN  [n |-> n \div g, d |-> d \div g]

R(n) == [n |-> n, d |-> 1]
RZero == R(0)

\* values that are no number: float('nan'), None, a pandas Series object
NaN == [n |-> 0, d |-> 0]
None == [n |-> 1, d |-> 0]
SeriesObject == [n |-> 2, d |-> 0]
IsNumber(x) == x.d > 0

RAdd(a, b) ==
    LET g == GCD(a.d, b.d)
    IN  RNorm(a.n * (b.d \div g) + b.n * (a.d \div g), (a.d \div g) * b.d)

RNeg(a) == [n |-> -a.n, d |-> a.d]
RSub(a, b) == RAdd(a, RNeg(b))

RMul(a, b) ==
    LET g1 == GCD(Abs(a.n), b.d)
        g2 == GCD(Abs(b.n), a.d)
    IN  RNorm((a.n \div g1) * (b.n \div g2), (a.d \div g2) * (b.d \div g1))

\* a / b for b # 0
RDiv(a, b) ==
    IF b.n > 0 THEN RMul(a, [n |-> b.d, d |-> b.n])
               ELSE RMul(a, [n |-> -b.d, d |-> -b.n])

\* f itself; comparing a function makes TLC tabulate it, so that its values
\* are computed once and not at every application
Table(f) == IF f = f THEN f ELSE f

\* F(v) with v evaluated once, as a local variable of the code holds the
\* value it was assigned
Once(v, F(_)) == CHOOSE r \in {F(x) : x \in {v}} : TRUE

RLess(a, b) == RSub(a, b).n < 0
RLeq(a, b) == RSub(a, b).n <= 0
RMax(a, b) == IF RLess(a, b) THEN b ELSE a

---------------------------------------------------------------------------
(* Ledger / cost-basis engine.                                             *)

\* the literal 1e-6 of calculate_index_cost
EPSILON == [n |-> 1, d |-> 1000000]

\* transaction.get('unit', 1), transaction.get('price', 0), transaction.get('type')
GetUnit(t) == IF "unit" \in DOMAIN t THEN t.unit ELSE R(1)
GetPrice(t) == IF "price" \in DOMAIN t THEN t.price ELSE RZero
GetType(t) == IF "type" \in DOMAIN t THEN t.type ELSE "None"

\* One iteration of the replay with the epsilon snap left out.
CostStepNoSnap(acc, t) ==
    LET unit == GetUnit(t)
        price == GetPrice(t)
    IN  IF GetType(t) = "Buy"
        THEN [units |-> RAdd(acc.units, unit),
              cost |-> RAdd(acc.cost, RMul(price, unit))]
        ELSE IF GetType(t) = "Sell" /\ acc.units.n > 0
        THEN [units |-> RSub(acc.units, unit),
              cost |-> RSub(acc.cost, RMul(RDiv(acc.cost, acc.units), unit))]
        ELSE acc

\* One iteration of the replay whose snap resets the units only.
CostStepSnapUnits(acc, t) ==
    LET unit == GetUnit(t)
        price == GetPrice(t)
    IN  IF GetType(t) = "Buy"
        THEN [units |-> RAdd(acc.units, unit),
              cost |-> RAdd(acc.cost, RMul(price, unit))]
        ELSE IF GetType(t) = "Sell" /\ acc.units.n > 0
        THEN LET cost2 == RSub(acc.cost, RMul(RDiv(acc.cost, acc.units), unit))
                 units2 == RSub(acc.units, unit)
             IN  IF RLess(units2, EPSILON)
                 THEN [units |-> RZero, cost |-> cost2]
                 ELSE [units |-> units2, cost |-> cost2]
        ELSE acc

\* One iteration of the loop of calculate_index_cost on the running totals.
CostStep(acc, t) ==
    LET unit == GetUnit(t)
        price == GetPrice(t)
    IN  IF GetType(t) = "Buy"
        THEN [units |-> RAdd(acc.units, unit),
              cost |-> RAdd(acc.cost, RMul(price, unit))]
        ELSE IF GetType(t) = "Sell" /\ acc.units.n > 0
        THEN LET avg_cost_per_unit == RDiv(acc.cost, acc.units)
                 cost2 == RSub(acc.cost, RMul(avg_cost_per_unit, unit))
                 units2 == RSub(acc.units, unit)
             IN  IF RLess(units2, EPSILON)
                 THEN [units |-> RZero, cost |-> RZero]
                 ELSE [units |-> units2, cost |-> cost2]
        ELSE acc

RECURSIVE CostLoop(_, _, _)
CostLoop(history, i, acc) ==
    IF i > Len(history) THEN acc
    ELSE CostLoop(history, i + 1, CostStep(acc, history[i]))

RECURSIVE CostLoopNoSnap(_, _, _)
CostLoopNoSnap(history, i, acc) ==
    IF i > Len(history) THEN acc
    ELSE CostLoopNoSnap(history, i + 1, CostStepNoSnap(acc, history[i]))

\* The replay with two slips: the epsilon snap is left out and the running
\* totals are returned without the final max(0.0, ...).
calculate_index_cost_unclamped(history) ==
    CostLoopNoSnap(history, 1, [units |-> RZero, cost |-> RZero])

\* The replay with a Sell priced at the record's own price (not the average).
CostStepAtPrice(acc, t) ==
    IF GetType(t) = "Sell" /\ acc.units.n > 0
    THEN LET units2 == RSub(acc.units, GetUnit(t))
         IN  IF RLess(units2, EPSILON)
             THEN [units |-> RZero, cost |-> RZero]
             ELSE [units |-> units2,
                   cost |-> RSub(acc.cost, RMul(GetPrice(t), GetUnit(t)))]
    ELSE CostStep(acc, t)

RECURSIVE CostLoopAtPrice(_, _, _)
CostLoopAtPrice(history, i, acc) ==
    IF i > Len(history) THEN acc
    ELSE CostLoopAtPrice(history, i + 1, CostStepAtPrice(acc, history[i]))

calculate_index_cost_at_price(history) ==
    LET acc == CostLoopAtPrice(history, 1, [units |-> RZero, cost |-> RZero])
    IN  [units |-> RMax(RZero, acc.units), cost |-> RMax(RZero, acc.cost)]

\* calculate_index_cost(history) -> (total_units, total_cost)
calculate_index_cost(history) ==
    LET acc == CostLoop(history, 1, [units |-> RZero, cost |-> RZero])
    IN  [units |-> RMax(RZero, acc.units), cost |-> RMax(RZero, acc.cost)]

---------------------------------------------------------------------------
(* SpecCost: calculate_index_cost applied to every bounded history.        *)

MaxCostLen == 3

\* 0.9999995: a Sell of it from one unit leaves 5e-7, below the epsilon
NearOne == [n |-> 1999999, d |-> 2000000]

CostBuyUnits == {R(0), R(1), R(10)}
CostSellUnits == {R(0), R(1), R(10), NearOne}
CostPrices == {R(0), R(100), R(200)}

CostRecords ==
    [type : {"Buy"}, unit : CostBuyUnits, price : CostPrices]
    \cup [type : {"Sell"}, unit : CostSellUnits, price : {R(100)}]

CostInit ==
    /\ cost_history = <<>>
    /\ cost_result = calculate_index_cost(<<>>)
    /\ LookupIdle /\ SigIdle /\ MetricsIdle /\ PLIdle /\ AppIdle

\* A history is extended while the position is a whole number of units: the
\* exact rationals of a position mixing whole and near-epsilon amounts at
\* different prices do not fit TLC's 32-bit integers.
CostCall(t) ==
    /\ Len(cost_history) < MaxCostLen
    /\ cost_result.units.d = 1
    /\ cost_history' = Append(cost_history, t)
    /\ cost_result' = calculate_index_cost(cost_history')
    /\ UNCHANGED <<lookupVars, sigVars, metricsVars, plVars, appVars>>

CostNext == \E t \in CostRecords : CostCall(t)

SpecCost == CostInit /\ [][CostNext]_vars

Front(s) == SubSeq(s, 1, Len(s) - 1)
Last(s) == s[Len(s)]

\* the totals before the last record of cost_history was replayed
CostBefore == calculate_index_cost(Front(cost_history))

\* C1: for every history of Buy/Sell records with unit >= 0 and price >= 0,
\* oversells and Sells on an empty position included, calculate_index_cost
\* returns units_held >= 0 and total_cost >= 0.
C1_NonNegative ==
    /\ cost_result.units.n >= 0
    /\ cost_result.cost.n >= 0

\* C1 witness: a Sell replayed on an empty position, then a Buy, then a Sell
\* of more units than are held; the result is the zero position.
C1_Witness ==
    /\ Len(cost_history) = 3
    /\ cost_history[1].type = "Sell" /\ cost_history[1].unit.n > 0
    /\ cost_history[2].type = "Buy" /\ cost_history[2].unit.n > 0
    /\ cost_history[2].price.n > 0
    /\ cost_history[3].type = "Sell"
    /\ RLess(cost_history[2].unit, cost_history[3].unit)
    /\ cost_result = [units |-> RZero, cost |-> RZero]

C2_Example ==
    << [type |-> "Buy", unit |-> R(10), price |-> R(100)],
       [type |-> "Buy", unit |-> R(10), price |-> R(200)],
       [type |-> "Sell", unit |-> R(10), price |-> R(100)] >>

\* What C2 says of the last record t of the history, for a Sell that the
\* predicate InScope(before, t) covers.
C2_Body(InScope(_, _)) ==
    Len(cost_history) > 0 =>
        LET t == Last(cost_history)
            before == CostBefore
            avg == RDiv(before.cost, before.units)
        IN  /\ t.type = "Buy" =>
                /\ cost_result.units = RAdd(before.units, t.unit)
                /\ cost_result.cost = RAdd(before.cost, RMul(t.price, t.unit))
            /\ (t.type = "Sell" /\ InScope(before, t)) =>
                /\ cost_result.units = RSub(before.units, t.unit)
                /\ cost_result.cost = RSub(before.cost, RMul(avg, t.unit))
                /\ cost_result.units.n > 0
                /\ RDiv(cost_result.cost, cost_result.units) = avg
            /\ cost_history = C2_Example =>
                cost_result = [units |-> R(10), cost |-> R(1500)]

C2_SellBelowHolding(before, t) ==
    t.unit.n > 0 /\ RLess(t.unit, before.units)

C2_SellLeavingEpsilon(before, t) ==
    t.unit.n > 0 /\ RLeq(EPSILON, RSub(before.units, t.unit))

\* C2 as stated: weighted-average cost; every Sell of u units with
\* 0 < u < units_held subtracts (total_cost/units_held)*u and u, keeping the
\* average cost per unit; Buy(10@100), Buy(10@200), Sell(10) gives (10, 1500).
C2_Original == C2_Body(C2_SellBelowHolding)

\* C2 amended: the same for every Sell of u > 0 units that leaves at least
\* the epsilon 1e-6 of units (units_held - u >= 1e-6); a Sell leaving less is
\* snapped to the zero position instead.
C2_WeightedAverage == C2_Body(C2_SellLeavingEpsilon)

\* C2 witness: the example history has been replayed, a partial Sell from a
\* position built at two prices.
C2_Witness ==
    /\ cost_history = C2_Example
    /\ cost_result.units = R(10)
    /\ C2_SellLeavingEpsilon(CostBefore, Last(cost_history))

\* C24: during replay a Sell met while units_held is zero changes neither
\* units_held nor total_cost; a Sell that would leave units_held below the
\* epsilon 1e-6, any Sell of more units than are held included, sets both to
\* exactly zero; and a Buy replayed on the zero position yields its own
\* units and cost price * unit.
C24_SellSnapsToZero ==
    Len(cost_history) > 0 =>
        LET t == Last(cost_history)
            before == CostBefore
            zero == [units |-> RZero, cost |-> RZero]
        IN  /\ (t.type = "Sell" /\ before.units = RZero) =>
                cost_result = before
            /\ (t.type = "Sell" /\ before.units.n > 0
                /\ RLess(RSub(before.units, t.unit), EPSILON)) =>
                cost_result = zero
            /\ (t.type = "Buy" /\ before = zero) =>
                cost_result = [units |-> t.unit, cost |-> RMul(t.price, t.unit)]

\* C24 witness: a Buy of one unit, a Sell that leaves 5e-7 units and is
\* snapped to the zero position, then a Buy that starts from zero cost.
C24_Witness ==
    /\ Len(cost_history) = 3
    /\ cost_history[1].type = "Buy" /\ cost_history[1].unit = R(1)
    /\ cost_history[1].price.n > 0
    /\ cost_history[2].type = "Sell" /\ cost_history[2].unit = NearOne
    /\ CostBefore = [units |-> RZero, cost |-> RZero]
    /\ cost_history[3].type = "Buy"
    /\ cost_result = [units |-> R(10), cost |-> R(2000)]

\* C26: after the replay of any history whose records have unit >= 0 and
\* price >= 0, units_held = 0 implies total_cost = 0.
C26_NoCostOnEmptyPosition ==
    cost_result.units = RZero => cost_result.cost = RZero

\* C26 witness: a Buy at a positive price, a Sell of all the units bought,
\* and a Buy of zero units at a positive price leave no units and no cost.
C26_Witness ==
    /\ Len(cost_history) = 3
    /\ cost_history[1].type = "Buy" /\ cost_history[1].unit = R(10)
    /\ cost_history[1].price = R(100)
    /\ cost_history[2].type = "Sell" /\ cost_history[2].unit = R(10)
    /\ cost_history[3].type = "Buy" /\ cost_history[3].unit = RZero
    /\ cost_history[3].price = R(200)
    /\ cost_result.units = RZero
    /\ cost_result.cost = RZero

---------------------------------------------------------------------------
(* Point lookup with forward fill.  A series (df_full) is a sequence of    *)
(* rows [Date, pe, Close, pe_percentile]; get_metrics_from_csv sorts it by *)
(* Date and drops rows with a missing value, but keeps repeated dates.     *)

NaNPair == [pe |-> NaN, Close |-> NaN]

\* a target_date_str that pd.to_datetime cannot parse
InvalidDate == -1

RowsAt(df, d) == {i \in 1..Len(df) : df[i].Date = d}
RowsBefore(df, d) == {i \in 1..Len(df) : df[i].Date < d}
HasDuplicateDates(df) ==
    \E i, j \in 1..Len(df) : i # j /\ df[i].Date = df[j].Date

\* The lookup that takes the nearest row on either side of the target.
find_pe_by_date_nearest(df, target_date_str) ==
    IF target_date_str = InvalidDate \/ df = <<>> THEN NaNPair
    ELSE LET Dist(i) == Abs(df[i].Date - target_date_str)
             i == CHOOSE k \in 1..Len(df) :
                      \A j \in 1..Len(df) : Dist(k) <= Dist(j)
         IN  [pe |-> df[i].pe, Close |-> df[i].Close]

\* find_pe_by_date(df, target_date_str) -> (pe, Close)
\*  - an unparsable date: the except branch;
\*  - the date is in the index: df_temp.loc[target_date], which is one row
\*    when the label occurs once and a frame of all its rows when it is
\*    repeated (row['pe'] is then a Series object, not a number);
\*  - otherwise reindex on the union of the index and the date, then ffill;
\*    DataFrame.reindex raises on an index with repeated labels, and the
\*    except branch returns (nan, nan).
find_pe_by_date(df, target_date_str) ==
    IF target_date_str = InvalidDate THEN NaNPair
    ELSE LET same == RowsAt(df, target_date_str)
             before == RowsBefore(df, target_date_str)
         IN  IF same # {}
             THEN IF Cardinality(same) = 1
                  THEN LET i == CHOOSE k \in same : TRUE
                       IN  [pe |-> df[i].pe, Close |-> df[i].Close]
                  ELSE [pe |-> SeriesObject, Close |-> SeriesObject]
             ELSE IF HasDuplicateDates(df) THEN NaNPair
             ELSE IF before = {} THEN NaNPair
             ELSE LET i == CHOOSE k \in before :
                               \A j \in before : df[j].Date <= df[k].Date
                  IN  [pe |-> df[i].pe, Close |-> df[i].Close]

---------------------------------------------------------------------------
(* SpecLookup: find_pe_by_date on every bounded sorted series and date.    *)

MaxLookupLen == 3

\* 1, 2, 3 stand for 2020-01-01 .. 2020-01-03; 0 is 2019-12-31
LookupDates == {1, 2, 3}
LookupTargets == {0, 1, 2, 3, 4, InvalidDate}
LookupRows ==
    [Date : LookupDates, pe : {R(10), R(11)}, Close : {R(3000)},
     pe_percentile : {R(0)}]

SortedByDate(df) == \A i \in 1..(Len(df) - 1) : df[i].Date <= df[i + 1].Date

LookupSeries ==
    {df \in UNION {[1..n -> LookupRows] : n \in 0..MaxLookupLen} :
        SortedByDate(df)}

LookupInit ==
    /\ lookup_df \in LookupSeries
    /\ lookup_date \in LookupTargets
    /\ lookup_result = <<>>
    /\ CostIdle /\ SigIdle /\ MetricsIdle /\ PLIdle /\ AppIdle

LookupCall ==
    /\ lookup_result = <<>>
    /\ lookup_result' = <<find_pe_by_date(lookup_df, lookup_date)>>
    /\ UNCHANGED <<lookup_df, lookup_date, costVars, sigVars, metricsVars, plVars,
                 appVars>>

LookupNext == LookupCall

SpecLookup == LookupInit /\ [][LookupNext]_vars

\* C4: find_pe_by_date(series, d) returns the (pe, close) of the row dated d
\* when d is a date of the series; otherwise the (pe, close) of the latest
\* row dated strictly before d; (NaN, NaN) when no row is dated <= d; and
\* never the values of a row dated after d.
C4_ForwardFill ==
    (lookup_result # <<>> /\ lookup_date # InvalidDate) =>
        LET same == RowsAt(lookup_df, lookup_date)
            before == RowsBefore(lookup_df, lookup_date)
            latest == {i \in before :
                          \A j \in before : lookup_df[j].Date <= lookup_df[i].Date}
            ValuesOf(I) == {[pe |-> lookup_df[i].pe, Close |-> lookup_df[i].Close] :
                               i \in I}
            \* .loc on a repeated date yields all its rows at once
            AllOf(I) == IF Cardinality(I) > 1
                        THEN {[pe |-> SeriesObject, Close |-> SeriesObject]}
                        ELSE {}
        IN  /\ same # {} => lookup_result[1] \in ValuesOf(same) \cup AllOf(same)
            /\ (same = {} /\ before # {}) => lookup_result[1] \in ValuesOf(latest)
            /\ (same = {} /\ before = {}) => lookup_result[1] = NaNPair

---------------------------------------------------------------------------
(* Signal engine: the evaluation of one index in the page loop.  The       *)
(* argument a holds what the ladder reads: curr_pe, curr_percentile, avg3, *)
(* avg_5yr (a number or NaN), current_holdings, history, the strategy      *)
(* parameters and today (datetime.now().date()).                           *)

RAbs(x) == IF x.n < 0 THEN RNeg(x) ELSE x

\* trade['pe'] is not None and not np.isnan(trade['pe'])
HasPe(t) == t.pe # None /\ t.pe # NaN

\* The gate without the volatility override: the time test alone.
time_limit_suppression_time_only(a) ==
    /\ a.history # <<>>
    /\ HasPe(a.history[Len(a.history)])
    /\ a.today - a.history[Len(a.history)].date < a.MIN_INTERVAL_DAYS

\* time_limit_suppression: the time / volatility gate on the last operation.
\* A last_op_pe of 0 makes pe_change_pct inf or nan (numpy division), which
\* is not below the override.
time_limit_suppression(a) ==
    /\ a.history # <<>>
    /\ LET last_op == a.history[Len(a.history)]
       IN  /\ HasPe(last_op)
           /\ a.today - last_op.date < a.MIN_INTERVAL_DAYS
           /\ last_op.pe.n # 0
           /\ RLess(RAbs(RDiv(RSub(a.curr_pe, last_op.pe), last_op.pe)),
                    a.VOLATILITY_OVERRIDE_PCT)

\* last_buy_pe: the pe of the first Buy with a pe, searching from the end
RECURSIVE last_buy_pe_from(_, _)
last_buy_pe_from(history, i) ==
    IF i = 0 THEN None
    ELSE IF history[i].type = "Buy" /\ HasPe(history[i]) THEN history[i].pe
    ELSE last_buy_pe_from(history, i - 1)

last_buy_pe(a) == last_buy_pe_from(a.history, Len(a.history))

\* benchmark_pe = avg3 if not np.isnan(avg3) else 0
benchmark_pe(a) == IF a.avg3 # NaN THEN a.avg3 ELSE RZero

\* The gate testing only for a missing average.
insufficient_history_nan_only(a) == a.avg3 = NaN

\* benchmark_pe == 0 or np.isnan(benchmark_pe)
insufficient_history(a) == benchmark_pe(a) = RZero \/ benchmark_pe(a) = NaN

\* diff_pct > 30, with diff_pct = (curr_pe - benchmark_pe) / benchmark_pe * 100
\* when benchmark_pe > 0 and nan otherwise
sell_condition_2(a) ==
    /\ benchmark_pe(a).n > 0
    /\ RLess(R(30), RMul(RDiv(RSub(a.curr_pe, benchmark_pe(a)), benchmark_pe(a)),
                         R(100)))

\* The second buy condition without the 5-year average.
buy_condition_2_avg3_only(a) == a.avg3 # NaN /\ RLess(a.curr_pe, a.avg3)

sell_condition_1(a) == RLess([n |-> 75, d |-> 100], a.curr_percentile)
buy_condition_1(a) == RLess(a.curr_percentile, [n |-> 20, d |-> 100])
buy_condition_2(a) ==
    /\ a.avg3 # NaN /\ RLess(a.curr_pe, a.avg3)
    /\ a.avg_5yr # NaN /\ RLess(a.curr_pe, a.avg_5yr)

\* The step gate applied whether or not there is a position.
suppress_by_step_any_holding(a) ==
    /\ last_buy_pe(a) # None
    /\ RLess(RMul(last_buy_pe(a), RSub(R(1), a.STEP_PERCENT)), a.curr_pe)

\* suppress_by_step: curr_pe > last_buy_pe * (1 - STEP_PERCENT)
suppress_by_step(a) ==
    /\ a.current_holdings.n > 0
    /\ last_buy_pe(a) # None
    /\ RLess(RMul(last_buy_pe(a), RSub(R(1), a.STEP_PERCENT)), a.curr_pe)

\* The ladder with the buy branch tested before the sell branch.
signal_ladder_buy_first(a) ==
    IF buy_condition_1(a) \/ buy_condition_2(a)
    THEN IF suppress_by_step(a) THEN "SuppressedByStepBuy"
         ELSE IF RLess(a.current_holdings, R(a.MAX_UNITS)) THEN "SuggestBuy"
         ELSE "SuggestBuyAtCap"
    ELSE IF sell_condition_1(a) \/ sell_condition_2(a)
    THEN IF a.current_holdings.n > 0 THEN "SuggestSell"
         ELSE "SuggestSellNoHolding"
    ELSE "Neutral"

\* The ladder with the cap reached only above MAX_UNITS.
signal_ladder_cap_above(a) ==
    IF sell_condition_1(a) \/ sell_condition_2(a)
    THEN IF a.current_holdings.n > 0 THEN "SuggestSell"
         ELSE "SuggestSellNoHolding"
    ELSE IF buy_condition_1(a) \/ buy_condition_2(a)
    THEN IF suppress_by_step(a) THEN "SuppressedByStepBuy"
         ELSE IF RLeq(a.current_holdings, R(a.MAX_UNITS)) THEN "SuggestBuy"
         ELSE "SuggestBuyAtCap"
    ELSE "Neutral"

\* the else branch of the ladder: sell conditions, then buy conditions
signal_ladder(a) ==
    IF sell_condition_1(a) \/ sell_condition_2(a)
    THEN IF a.current_holdings.n > 0 THEN "SuggestSell"
         ELSE "SuggestSellNoHolding"
    ELSE IF buy_condition_1(a) \/ buy_condition_2(a)
    THEN IF suppress_by_step(a) THEN "SuppressedByStepBuy"
         ELSE IF RLess(a.current_holdings, R(a.MAX_UNITS)) THEN "SuggestBuy"
         ELSE "SuggestBuyAtCap"
    ELSE "Neutral"

\* The signal of one index:
\*   "InsufficientHistory"   '⚠️ 数据积累中 (不满 3 年)'
\*   "SuppressedByCooldown"  '⏸️ 观望 (N天/±P%限制)'
\*   "SuggestSell"           '🔴 建议卖出'
\*   "SuggestSellNoHolding"  '🔴 建议卖出 (无持仓)。'
\*   "SuppressedByStepBuy"   '⏸️ 观望 (跌幅不足 P%)'
\*   "SuggestBuy"            '🟢 建议买入'
\*   "SuggestBuyAtCap"       '🟢 建议买入 (已满仓)'
\*   "Neutral"               '观望'
evaluate_signal(a) ==
    IF insufficient_history(a) THEN "InsufficientHistory"
    ELSE IF time_limit_suppression(a) THEN "SuppressedByCooldown"
    ELSE signal_ladder(a)

---------------------------------------------------------------------------
(* SpecSignal: the ladder on every combination of bounded inputs.          *)

MaxSigHistory == 2

Dec(n, d) == RNorm(n, d)

\* today is day 40; day 30 is 10 days ago, day 0 is 40 days ago
SigToday == 40
SigTrades == [date : {0, 30}, type : {"Buy", "Sell"}, pe : {None, NaN, R(20)}]
SigHistories == UNION {[1..n -> SigTrades] : n \in 0..MaxSigHistory}

SigInputs ==
    [curr_pe : {Dec(187, 10), R(19), R(21), R(23)},
     curr_percentile : {Dec(10, 100), Dec(50, 100), Dec(80, 100)},
     avg3 : {NaN, RZero, R(15), R(25)},
     avg_5yr : {NaN, R(25)},
     current_holdings : {RZero, R(5), R(150)},
     history : SigHistories,
     MAX_UNITS : {150},
     STEP_PERCENT : {Dec(6, 100)},
     MIN_INTERVAL_DAYS : {30},
     VOLATILITY_OVERRIDE_PCT : {Dec(12, 100)},
     today : {SigToday}]

SigInit ==
    /\ sig_args \in SigInputs
    /\ sig_signal = "idle"
    /\ CostIdle /\ LookupIdle /\ MetricsIdle /\ PLIdle /\ AppIdle

SigCall ==
    /\ sig_signal = "idle"
    /\ sig_signal' = evaluate_signal(sig_args)
    /\ UNCHANGED <<sig_args, costVars, lookupVars, metricsVars, plVars, appVars>>

SigNext == SigCall

SpecSignal == SigInit /\ [][SigNext]_vars

\* The conditions as the claims word them, on the evaluated arguments.
SigDone == sig_signal # "idle"
Avg3Valid == sig_args.avg3 # NaN /\ sig_args.avg3 # RZero
HoldsUnits == RLess(RZero, sig_args.current_holdings)
LastOp == sig_args.history[Len(sig_args.history)]
DaysSince == sig_args.today - LastOp.date

\* |curr_pe - last.pe| / last.pe < volatility_override_pct
SmallPeChange ==
    LET change == RAbs(RSub(sig_args.curr_pe, LastOp.pe))
    IN  RLess(change, RMul(sig_args.VOLATILITY_OVERRIDE_PCT, LastOp.pe))

CooldownSuppresses ==
    /\ sig_args.history # <<>>
    /\ IsNumber(LastOp.pe)
    /\ DaysSince < sig_args.MIN_INTERVAL_DAYS
    /\ SmallPeChange

\* pe_percentile > 0.75, or (curr_pe - avg_3yr) / avg_3yr > 0.30
SellConditionHolds ==
    \/ RLess(Dec(75, 100), sig_args.curr_percentile)
    \/ RLess(RMul(Dec(130, 100), sig_args.avg3), sig_args.curr_pe)

\* pe_percentile < 0.20, or curr_pe < avg_3yr and curr_pe < avg_5yr
BuyConditionHolds ==
    \/ RLess(sig_args.curr_percentile, Dec(20, 100))
    \/ /\ RLess(sig_args.curr_pe, sig_args.avg3)
       /\ IsNumber(sig_args.avg_5yr)
       /\ RLess(sig_args.curr_pe, sig_args.avg_5yr)

\* the positions of the Buys that carry a pe
BuysWithPe ==
    {i \in 1..Len(sig_args.history) :
        sig_args.history[i].type = "Buy" /\ IsNumber(sig_args.history[i].pe)}
MostRecentBuyPe ==
    sig_args.history[CHOOSE i \in BuysWithPe : \A j \in BuysWithPe : j <= i].pe

\* C5: sell is evaluated before buy: with avg_3yr valid, no cooldown
\* suppression and a sell condition holding, the signal is SuggestSell when
\* units are held and SuggestSellNoHolding otherwise, also when a buy
\* condition holds at the same time.
C5_SellBeforeBuy ==
    (SigDone /\ Avg3Valid /\ ~CooldownSuppresses /\ SellConditionHolds) =>
        sig_signal = IF HoldsUnits THEN "SuggestSell" ELSE "SuggestSellNoHolding"

\* C5 witness: a sell and a buy condition hold together and the signal is a
\* sell.
C5_Witness ==
    /\ SigDone /\ Avg3Valid /\ ~CooldownSuppresses
    /\ SellConditionHolds /\ BuyConditionHolds
    /\ sig_signal = "SuggestSell"

\* C6: with avg_3yr valid, the signal is SuppressedByCooldown exactly when
\* the last entry of history has a pe, days_since < min_interval_days and the
\* absolute relative pe change is below volatility_override_pct; a change at
\* or above the override within the interval leaves the signal to the
\* sell/buy rules.
C6_CooldownGate ==
    (SigDone /\ Avg3Valid) =>
        (sig_signal = "SuppressedByCooldown" <=> CooldownSuppresses)

\* C6 witness: interval 30, 10 days since the last operation at pe 20,
\* current pe 23 (a change of 0.15 >= 0.12): not suppressed.
C6_Witness ==
    /\ SigDone /\ Avg3Valid
    /\ sig_args.history # <<>> /\ LastOp.pe = R(20)
    /\ sig_args.MIN_INTERVAL_DAYS = 30 /\ DaysSince = 10
    /\ sig_args.curr_pe = R(23)
    /\ sig_signal \in {"SuggestSell", "SuggestSellNoHolding", "Neutral"}

\* C7: when the buy conditions decide (no earlier rule fired), units are
\* held and a most recent Buy with a pe exists, the signal is
\* SuppressedByStepBuy exactly when curr_pe > last_buy_pe * (1 - step_percent);
\* with no units held or no Buy with a pe the step gate never suppresses.
C7_StepBuyGate ==
    SigDone =>
        /\ (/\ Avg3Valid /\ ~CooldownSuppresses
            /\ ~SellConditionHolds /\ BuyConditionHolds
            /\ HoldsUnits /\ BuysWithPe # {}) =>
               (sig_signal = "SuppressedByStepBuy" <=>
                   RLess(RMul(MostRecentBuyPe, RSub(R(1), sig_args.STEP_PERCENT)),
                         sig_args.curr_pe))
        /\ (~HoldsUnits \/ BuysWithPe = {}) => sig_signal # "SuppressedByStepBuy"

\* C7 witness: last_buy_pe 20, step 0.06, curr_pe 18.7, units held below the
\* cap: SuggestBuy.
C7_Witness ==
    /\ SigDone /\ HoldsUnits /\ BuysWithPe # {}
    /\ MostRecentBuyPe = R(20)
    /\ sig_args.STEP_PERCENT = Dec(6, 100)
    /\ sig_args.curr_pe = Dec(187, 10)
    /\ sig_signal = "SuggestBuy"

\* C8: the signal is InsufficientHistory exactly when avg_3yr is NaN or zero,
\* whatever the cooldown state, percentile, holdings, history and parameters.
C8_InsufficientHistoryFirst ==
    SigDone => (sig_signal = "InsufficientHistory" <=> ~Avg3Valid)

\* C8 witness: avg_3yr is zero while the cooldown would suppress and a sell
\* condition holds: InsufficientHistory all the same.
C8_Witness ==
    /\ SigDone /\ sig_args.avg3 = RZero
    /\ CooldownSuppresses
    /\ RLess(Dec(75, 100), sig_args.curr_percentile)
    /\ sig_signal = "InsufficientHistory"

\* the step-buy gate as the claims word it
StepSuppresses ==
    /\ HoldsUnits /\ BuysWithPe # {}
    /\ RLess(RMul(MostRecentBuyPe, RSub(R(1), sig_args.STEP_PERCENT)),
             sig_args.curr_pe)

EightSignals ==
    {"InsufficientHistory", "SuppressedByCooldown", "SuggestSell",
     "SuggestSellNoHolding", "SuppressedByStepBuy", "SuggestBuy",
     "SuggestBuyAtCap", "Neutral"}

\* C19: every evaluation yields one of the eight signals; a signal of the
\* buy evaluation (SuppressedByStepBuy, SuggestBuy, SuggestBuyAtCap) is given
\* exactly when avg_3yr is valid, the cooldown does not suppress, no sell
\* condition holds and pe_percentile < 0.20 or (curr_pe < avg_3yr and
\* curr_pe < avg_5yr); the signal is Neutral exactly when avg_3yr is valid,
\* the cooldown does not suppress and neither a sell nor a buy condition
\* holds.
C19_BuyEvaluationAndNeutral ==
    SigDone =>
        /\ sig_signal \in EightSignals
        /\ sig_signal \in {"SuppressedByStepBuy", "SuggestBuy", "SuggestBuyAtCap"}
               <=> (/\ Avg3Valid /\ ~CooldownSuppresses
                    /\ ~SellConditionHolds /\ BuyConditionHolds)
        /\ sig_signal = "Neutral"
               <=> (/\ Avg3Valid /\ ~CooldownSuppresses
                    /\ ~SellConditionHolds /\ ~BuyConditionHolds)

\* C19 witness: curr_pe is below avg_3yr but there is no 5-year average and
\* the percentile is 0.5: no buy condition, no sell condition, Neutral.
C19_Witness ==
    /\ SigDone /\ Avg3Valid /\ ~CooldownSuppresses
    /\ RLess(sig_args.curr_pe, sig_args.avg3)
    /\ sig_args.avg_5yr = NaN
    /\ sig_args.curr_percentile = Dec(50, 100)
    /\ sig_signal = "Neutral"

---------------------------------------------------------------------------
(* Valuation loader: get_metrics_from_csv.  The argument is the table      *)
(* read_csv returns after the renaming and the numeric coercion of lines   *)
(* 297-307: rows [Date, pe, pe_percentile, Close] in file order, a value   *)
(* that could not be parsed being NaN.  deviation_pct, max_dev and min_dev *)
(* are display values and are left out of the result.                      *)

\* the windows '1095D' and '1825D', in days
WINDOW_3Y == 1095
WINDOW_5Y == 1825

\* the return value None: no file, an empty table or no complete row
NoMetrics ==
    [current_pe |-> None, current_percentile |-> None, avg_3yr |-> None,
     avg_5yr |-> None, df |-> <<>>]

\* df.dropna(subset=['pe', 'Date', 'pe_percentile', 'Close'])
RECURSIVE dropna(_)
dropna(rows) ==
    IF rows = <<>> THEN <<>>
    ELSE LET r == rows[1]
             complete == /\ r.Date # InvalidDate /\ IsNumber(r.pe)
                         /\ IsNumber(r.pe_percentile) /\ IsNumber(r.Close)
         IN  (IF complete THEN <<r>> ELSE <<>>) \o dropna(Tail(rows))

\* df.sort_values('Date', ascending=True): the orders the sort can leave the
\* rows in; the default quicksort does not fix the order of rows that carry
\* the same date.  No row is dropped: repeated dates stay.
sort_values(rows) ==
    LET n == Len(rows)
        perms == {p \in [1..n -> 1..n] : \A i, j \in 1..n : i # j => p[i] # p[j]}
    IN  {df \in {[i \in 1..n |-> rows[p[i]]] : p \in perms} : SortedByDate(df)}

RECURSIVE SumPe(_, _)
SumPe(df, I) ==
    IF I = {} THEN RZero
    ELSE LET i == CHOOSE k \in I : TRUE
         IN  RAdd(df[i].pe, SumPe(df, I \ {i}))

\* df['pe'].rolling(window, min_periods=1, closed='left').mean() at row i:
\* the mean of pe over the rows dated in [Date_i - window, Date_i), NaN when
\* there is no such row
rolling_mean(df, i, window) ==
    LET W == {j \in 1..Len(df) :
                 /\ df[i].Date - window <= df[j].Date
                 /\ df[j].Date < df[i].Date}
    IN  IF W = {} THEN NaN ELSE RDiv(SumPe(df, W), R(Cardinality(W)))

\* get_metrics_from_csv from line 310 on, df being the sorted frame
get_metrics_from_csv(df) ==
    IF df = <<>> THEN NoMetrics
    ELSE LET rolled == Table([i \in 1..Len(df) |->
                 [Date |-> df[i].Date, pe |-> df[i].pe,
                  pe_percentile |-> df[i].pe_percentile, Close |-> df[i].Close,
                  avg_3yr_roll |-> rolling_mean(df, i, WINDOW_3Y),
                  avg_5yr_roll |-> rolling_mean(df, i, WINDOW_5Y)]])
             last == rolled[Len(rolled)]
         IN  [current_pe |-> last.pe, current_percentile |-> last.pe_percentile,
              avg_3yr |-> last.avg_3yr_roll, avg_5yr |-> last.avg_5yr_roll,
              df |-> rolled]

---------------------------------------------------------------------------
(* SpecMetrics: the loader on every bounded table.                         *)

MaxMetricsRows == 3

\* day 0 is 2022-01-01; 1095 and 1825 days later the windows start to
\* exclude it
MetricsDates == {0, 1, 1095, 1096, 1826}
MetricsRows ==
    [Date : MetricsDates, pe : {NaN, R(10), R(12)},
     pe_percentile : {Dec(50, 100)}, Close : {R(3000)}]

MetricsInit ==
    /\ metrics_rows \in UNION {[1..n -> MetricsRows] : n \in 0..MaxMetricsRows}
    /\ metrics_result = <<>>
    /\ CostIdle /\ LookupIdle /\ SigIdle /\ PLIdle /\ AppIdle

MetricsCall ==
    /\ metrics_result = <<>>
    /\ \E df \in sort_values(dropna(metrics_rows)) :
           metrics_result' = <<get_metrics_from_csv(df)>>
    /\ UNCHANGED <<metrics_rows, costVars, lookupVars, sigVars, plVars, appVars>>

MetricsNext == MetricsCall

SpecMetrics == MetricsInit /\ [][MetricsNext]_vars

\* C9: for every observation at date D whose series' earliest date is less
\* than N years before D, avg_Nyr is null (N = 3 and 5): the rolling average
\* is never computed over less than N years of available history.
C9_InsufficientHistoryGuard ==
    metrics_result # <<>> =>
        LET df == metrics_result[1].df
        IN  \A i \in 1..Len(df) :
                /\ df[i].Date - df[1].Date < WINDOW_3Y =>
                       df[i].avg_3yr_roll = NaN
                /\ df[i].Date - df[1].Date < WINDOW_5Y =>
                       df[i].avg_5yr_roll = NaN

\* C16: the series the loader returns has strictly increasing dates: of the
\* rows of the raw table that carry the same date exactly one is kept.
C16_StrictlyIncreasingDates ==
    metrics_result # <<>> =>
        LET df == metrics_result[1].df
        IN  \A i \in 1..(Len(df) - 1) : df[i].Date < df[i + 1].Date

\* the mean of pe over the rows of df dated in [D - N * 365.25 days, D), D
\* being the date of row i; NaN when no row is
mean_over_years(df, i, N) ==
    LET W == {j \in 1..Len(df) :
                 /\ 4 * (df[i].Date - df[j].Date) <= N * 1461
                 /\ df[j].Date < df[i].Date}
    IN  IF W = {} THEN NaN ELSE RDiv(SumPe(df, W), R(Cardinality(W)))

\* C17: for every observation at date D, avg_3yr and avg_5yr are the mean of
\* pe over exactly the observations dated in [D - N * 365.25 days, D) for
\* N = 3 and N = 5, and null when there is none.
C17_TrailingWindow ==
    metrics_result # <<>> =>
        LET df == metrics_result[1].df
        IN  \A i \in 1..Len(df) :
                /\ df[i].avg_3yr_roll = mean_over_years(df, i, 3)
                /\ df[i].avg_5yr_roll = mean_over_years(df, i, 5)

---------------------------------------------------------------------------
(* Floating P/L: calculate_index_pl_metrics(s, current_close_index,        *)
(* df_full).  df_full is not read.  current_close_index is a numpy float,  *)
(* so every division is numpy's.                                           *)

NaNTriple == [avg_cost |-> NaN, floating_pl_pct |-> NaN, total_market_value |-> NaN]

\* t.get('price') is not None and t.get('close') is not None
HasPriceAndClose(t) ==
    /\ "price" \in DOMAIN t /\ t.price # None
    /\ "close" \in DOMAIN t /\ t.close # None

\* next(t for t in reversed(history) if ...), as a position; 0 is None
RECURSIVE last_trade_from(_, _)
last_trade_from(history, i) ==
    IF i = 0 THEN 0
    ELSE IF HasPriceAndClose(history[i]) THEN i
    ELSE last_trade_from(history, i - 1)

\* the search of the anchor from the start of the history
RECURSIVE first_trade_from(_, _)
first_trade_from(history, i) ==
    IF i > Len(history) THEN 0
    ELSE IF HasPriceAndClose(history[i]) THEN i
    ELSE first_trade_from(history, i + 1)

\* the estimate anchored at position k of s.history; last_trade['close'] > 0
\* is false for a close of 0 and for NaN
pl_metrics_anchored(s, current_close_index, k) ==
    LET avg_cost == RDiv(s.total_cost, s.holdings)
    IN  IF k # 0 /\ IsNumber(s.history[k].close) /\ s.history[k].close.n > 0
        THEN LET last_trade == s.history[k]
                 estimated_current_etf_price ==
                     RMul(last_trade.price,
                          RDiv(current_close_index, last_trade.close))
                 total_market_value ==
                     RMul(estimated_current_etf_price, s.holdings)
             IN  [avg_cost |-> avg_cost,
                  floating_pl_pct |->
                      RSub(RDiv(total_market_value, s.total_cost), R(1)),
                  total_market_value |-> total_market_value]
        ELSE [avg_cost |-> avg_cost, floating_pl_pct |-> NaN,
              total_market_value |-> NaN]

\* The estimate anchored at the oldest transaction with a price and a close.
calculate_index_pl_metrics_oldest(s, current_close_index) ==
    IF s.holdings = RZero THEN NaNTriple
    ELSE pl_metrics_anchored(s, current_close_index,
                             first_trade_from(s.history, 1))

calculate_index_pl_metrics(s, current_close_index) ==
    IF s.holdings = RZero THEN NaNTriple
    ELSE pl_metrics_anchored(s, current_close_index,
                             last_trade_from(s.history, Len(s.history)))

---------------------------------------------------------------------------
(* SpecPL: the estimate on every bounded history; holdings and total_cost  *)
(* of s are the replay of its history, as recalculate_holdings_and_cost    *)
(* leaves them.                                                            *)

MaxPLHistory == 2

PLTrades ==
    [type : {"Buy", "Sell"}, unit : {R(150), R(300)}, price : {R(1), R(2)},
     close : {None, RZero, R(3000), R(4000)}]
PLHistories == UNION {[1..n -> PLTrades] : n \in 0..MaxPLHistory}
PLCloses == {R(3000), R(3300)}

PLState(history) ==
    [holdings |-> calculate_index_cost(history).units,
     total_cost |-> calculate_index_cost(history).cost,
     history |-> history]

PLInit ==
    /\ pl_args \in {[s |-> PLState(h), current_close_index |-> c] :
                        h \in PLHistories, c \in PLCloses}
    /\ pl_result = <<>>
    /\ CostIdle /\ LookupIdle /\ SigIdle /\ MetricsIdle /\ AppIdle

PLCall ==
    /\ pl_result = <<>>
    /\ pl_result' = <<calculate_index_pl_metrics(pl_args.s,
                                                 pl_args.current_close_index)>>
    /\ UNCHANGED <<pl_args, costVars, lookupVars, sigVars, metricsVars, appVars>>

PLNext == PLCall

SpecPL == PLInit /\ [][PLNext]_vars

\* the positions of the transactions whose price and close are both non-null
PLAnchors ==
    {i \in 1..Len(pl_args.s.history) :
        pl_args.s.history[i].price # None /\ pl_args.s.history[i].close # None}
PLAnchor == pl_args.s.history[CHOOSE i \in PLAnchors : \A j \in PLAnchors : j <= i]

\* What C10 says, the estimate being made for the anchors Usable() covers and
\* not-applicable for the others.
C10_Body(Usable(_)) ==
    pl_result # <<>> =>
        LET s == pl_args.s
            r == pl_result[1]
        IN  /\ s.holdings = RZero => r = NaNTriple
            /\ s.holdings # RZero =>
                /\ r.avg_cost = RDiv(s.total_cost, s.holdings)
                /\ (PLAnchors = {} \/ ~Usable(PLAnchor)) =>
                       /\ r.floating_pl_pct = NaN
                       /\ r.total_market_value = NaN
                /\ (PLAnchors # {} /\ Usable(PLAnchor)) =>
                       /\ IsNumber(r.total_market_value)
                       /\ RMul(r.total_market_value, PLAnchor.close) =
                              RMul(RMul(PLAnchor.price, pl_args.current_close_index),
                                   s.holdings)
                       /\ IsNumber(r.floating_pl_pct)
                       /\ RMul(RAdd(r.floating_pl_pct, R(1)), s.total_cost) =
                              r.total_market_value

C10_AnyAnchor(t) == TRUE
C10_AnchorWithPositiveClose(t) == IsNumber(t.close) /\ t.close.n > 0

\* C10 as stated: not-applicable triple when units_held = 0; otherwise
\* avg_cost = total_cost/units_held; with no transaction carrying a price
\* and a close, P/L and market value are not-applicable; otherwise
\* market_value = anchor.price * (current_close/anchor.close) * units_held and
\* pl_pct = market_value/total_cost - 1, the anchor being the most recent
\* such transaction.
C10_Original == C10_Body(C10_AnyAnchor)

\* C10 amended: the same, the estimate being made only when the anchor's
\* close is greater than 0; with no anchor or an anchor whose close is not
\* greater than 0, P/L and market value are not-applicable and avg_cost is
\* still returned.
C10_PLMetrics == C10_Body(C10_AnchorWithPositiveClose)

\* C10 witness: units are held, the most recent transaction has no close and
\* an older one anchors the estimate at another price.
C10_Witness ==
    /\ pl_result # <<>>
    /\ Len(pl_args.s.history) = 2
    /\ pl_args.s.holdings # RZero
    /\ pl_args.s.history[2].close = None
    /\ pl_args.s.history[1].close = R(3000)
    /\ pl_args.current_close_index = R(3300)
    /\ pl_result[1].floating_pl_pct = Dec(10, 100)

---------------------------------------------------------------------------
(* The dashboard page.  Every interaction is one run of the script: the    *)
(* ledger file is loaded and recomputed, the loop over TARGETS backfills   *)
(* missing pe/close and evaluates each index, and the handler of the       *)
(* pressed button mutates the state, recomputes, saves and reruns.  The    *)
(* state dict is a local of the run; `state` holds it as the run left it.  *)
(* json.dump / json.load return the floats, ints, strings and nulls they   *)
(* were given, so the file holds the state dict itself.  The cache of      *)
(* get_metrics_from_csv is cleared by every handler and is not modelled.   *)

\* two of the keys of TARGETS, in dict order; an index is named by its key
TARGETS == {"A.csv", "B.csv"}
TargetOrder == <<"A.csv", "B.csv">>

FIXED_AMOUNT_PER_PORTION == R(300)

DEFAULT_STRATEGY_PARAMS ==
    [MAX_UNITS |-> 150, STEP_PERCENT |-> Dec(6, 100),
     MIN_INTERVAL_DAYS |-> 30, VOLATILITY_OVERRIDE_PCT |-> Dec(12, 100)]

\* round(x, 0) and round(x, 2) of a non-negative x: to nearest, ties to even
Round0(x) ==
    LET q == x.n \div x.d
        r == x.n % x.d
    IN  IF 2 * r < x.d THEN R(q)
        ELSE IF 2 * r > x.d THEN R(q + 1)
        ELSE IF q % 2 = 0 THEN R(q) ELSE R(q + 1)
Round2(x) == RDiv(Round0(RMul(x, R(100))), R(100))

initial_state ==
    [code \in TARGETS |->
        [holdings |-> RZero, total_cost |-> RZero, portions_held |-> RZero,
         history |-> <<>>]]

\* the ledger file: absent, not parseable as JSON, or a saved state dict
AbsentFile == [kind |-> "absent", data |-> initial_state]
CorruptFile == [kind |-> "corrupt", data |-> initial_state]

\* calculate_total_portions(history)
RECURSIVE PortionsLoop(_, _, _)
PortionsLoop(history, i, total_portions) ==
    IF i > Len(history) THEN total_portions
    ELSE LET t == history[i]
             portions == IF "portions" \in DOMAIN t THEN t.portions ELSE RZero
         IN  PortionsLoop(history, i + 1,
                 IF GetType(t) = "Buy" THEN RAdd(total_portions, portions)
                 ELSE IF GetType(t) = "Sell" THEN RSub(total_portions, portions)
                 ELSE total_portions)

calculate_total_portions(history) == RMax(RZero, PortionsLoop(history, 1, RZero))

\* The recompute that refreshes portions_held only.
recalculate_portions_only(state_dict) ==
    Once(state_dict, LAMBDA st :
        Table([code \in DOMAIN st |->
            [st[code] EXCEPT
                !.portions_held = calculate_total_portions(st[code].history)]]))

\* A recompute that adds the replay to the holdings and cost already stored.
recalculate_onto_stored(state_dict) ==
    Once(state_dict, LAMBDA st :
        Table([code \in DOMAIN st |->
            Once(calculate_index_cost(st[code].history), LAMBDA replay :
                [st[code] EXCEPT
                    !.holdings = RAdd(@, replay.units),
                    !.total_cost = RAdd(@, replay.cost),
                    !.portions_held =
                        calculate_total_portions(st[code].history)])]))

\* recalculate_holdings_and_cost(state)
recalculate_holdings_and_cost(state_dict) ==
    Once(state_dict, LAMBDA st :
        Table([code \in DOMAIN st |->
            Once(calculate_index_cost(st[code].history), LAMBDA replay :
                [st[code] EXCEPT
                    !.holdings = replay.units,
                    !.total_cost = replay.cost,
                    !.portions_held =
                        calculate_total_portions(st[code].history)])]))

\* load_state: the compatibility pass over one history record
LoadRecord(h) ==
    LET truthy(x) == IsNumber(x) /\ x.n # 0
        portions ==
            IF "portions" \in DOMAIN h THEN h.portions
            ELSE IF /\ "price" \in DOMAIN h /\ truthy(h.price)
                    /\ "unit" \in DOMAIN h /\ truthy(h.unit)
                 THEN Round0(RDiv(RMul(h.price, h.unit), FIXED_AMOUNT_PER_PORTION))
                 ELSE RZero
        fund_name == IF "fund_name" \in DOMAIN h THEN h.fund_name ELSE ""
    IN  [date |-> h.date, type |-> h.type, pe |-> h.pe, close |-> h.close,
         price |-> h.price, unit |-> h.unit, portions |-> portions,
         fund_name |-> fund_name]

\* load_state: the compatibility pass over the entry of one index
LoadEntry(e) ==
    LET history == IF "history" \in DOMAIN e THEN e.history ELSE <<>>
    IN  [holdings |-> IF "holdings" \in DOMAIN e THEN e.holdings ELSE RZero,
         total_cost |-> IF "total_cost" \in DOMAIN e THEN e.total_cost ELSE RZero,
         portions_held |->
             IF "portions_held" \in DOMAIN e THEN e.portions_held ELSE RZero,
         history |-> Table([i \in 1..Len(history) |-> LoadRecord(history[i])])]

\* load_state()
load_state(file) ==
    IF file.kind # "json" THEN initial_state
    ELSE recalculate_holdings_and_cost(
             Table([code \in TARGETS |->
                 IF code \notin DOMAIN file.data THEN initial_state[code]
                 ELSE LoadEntry(file.data[code])]))

\* save_state(state): the file after the write
save_state(st) == [kind |-> "json", data |-> st]

\* A backfill step that also overwrites the trade price with the close found.
BackfillStepPriced(acc, trade, df) ==
    IF acc.raised THEN [acc EXCEPT !.history = Append(acc.history, trade)]
    ELSE IF trade.pe = None \/ trade.close = None \/ trade.pe = NaN
    THEN LET found == find_pe_by_date(df, trade.date)
         IN  IF found.pe = SeriesObject
             THEN [acc EXCEPT !.history = Append(acc.history, trade),
                              !.raised = TRUE]
             ELSE IF found.pe # NaN /\ found.Close # NaN
             THEN [acc EXCEPT
                      !.history = Append(acc.history,
                          [trade EXCEPT !.pe = Round2(found.pe),
                                        !.close = Round2(found.Close),
                                        !.price = Round2(found.Close)]),
                      !.updated = acc.updated + 1]
             ELSE [acc EXCEPT !.history = Append(acc.history, trade)]
    ELSE [acc EXCEPT !.history = Append(acc.history, trade)]

\* One trade of the backfill loop; acc is the history rebuilt so far with the
\* count of updates.  np.isnan of the Series a repeated date yields cannot
\* be tested by `not`, and the script run ends with that exception.
BackfillStep(acc, trade, df) ==
    IF acc.raised THEN [acc EXCEPT !.history = Append(acc.history, trade)]
    ELSE IF trade.pe = None \/ trade.close = None \/ trade.pe = NaN
    THEN LET found == find_pe_by_date(df, trade.date)
         IN  IF found.pe = SeriesObject
             THEN [acc EXCEPT !.history = Append(acc.history, trade),
                              !.raised = TRUE]
             ELSE IF found.pe # NaN /\ found.Close # NaN
             THEN [acc EXCEPT
                      !.history = Append(acc.history,
                          [trade EXCEPT !.pe = Round2(found.pe),
                                        !.close = Round2(found.Close)]),
                      !.updated = acc.updated + 1]
             ELSE [acc EXCEPT !.history = Append(acc.history, trade)]
    ELSE [acc EXCEPT !.history = Append(acc.history, trade)]

RECURSIVE BackfillLoop(_, _, _, _)
BackfillLoop(history, i, acc, df) ==
    IF i > Len(history) THEN acc
    ELSE BackfillLoop(history, i + 1, BackfillStep(acc, history[i], df), df)

\* the values the ladder reads for one index
SignalArgs(s, metrics, params, day) ==
    [curr_pe |-> metrics.current_pe, curr_percentile |-> metrics.current_percentile,
     avg3 |-> metrics.avg_3yr, avg_5yr |-> metrics.avg_5yr,
     current_holdings |-> s.holdings, history |-> s.history,
     MAX_UNITS |-> params.MAX_UNITS, STEP_PERCENT |-> params.STEP_PERCENT,
     MIN_INTERVAL_DAYS |-> params.MIN_INTERVAL_DAYS,
     VOLATILITY_OVERRIDE_PCT |-> params.VOLATILITY_OVERRIDE_PCT,
     today |-> day]

\* The loop over TARGETS from position i on.  run holds the state, the
\* frames loaded (full_data_frames), the signals, updated_records_count,
\* whether last_date has been assigned and whether an exception ended the
\* run.  An index without a data file is skipped; one whose file yields no
\* metrics gets the failure row, which reads last_date: a NameError unless
\* an earlier index has assigned it.  The P/L columns of the table are
\* computed from the state without changing it and are left out.
\* One pass of the loop body, for the index code.
PageStep(run, data, params, day, code) ==
    IF data[code] = <<>> THEN run
    ELSE Once(get_metrics_from_csv(dropna(data[code])), LAMBDA metrics :
         IF metrics = NoMetrics
         THEN IF run.last_date_bound
              THEN [run EXCEPT !.signals[code] = "DataFailed"]
              ELSE [run EXCEPT !.raised = TRUE]
         ELSE Once(BackfillLoop(run.state[code].history, 1,
                       [history |-> <<>>, updated |-> 0, raised |-> FALSE],
                       metrics.df),
                   LAMBDA bf :
              [state |-> [run.state EXCEPT ![code].history = bf.history],
               frames |-> [run.frames EXCEPT ![code] = metrics.df],
               signals |->
                   IF bf.raised THEN run.signals
                   ELSE [run.signals EXCEPT ![code] =
                            evaluate_signal(
                                SignalArgs([run.state[code] EXCEPT
                                               !.history = bf.history],
                                           metrics, params, day))],
               updated |-> run.updated + bf.updated,
               last_date_bound |-> ~bf.raised,
               raised |-> bf.raised]))

RECURSIVE PageLoop(_, _, _, _, _)
PageLoop(run, data, params, day, i) ==
    IF i > Len(TargetOrder) \/ run.raised THEN run
    ELSE Once(PageStep(run, data, params, day, TargetOrder[i]),
              LAMBDA next : PageLoop(next, data, params, day, i + 1))

\* The script from load_state down to the end of the loop over TARGETS.
PageTop(file, data, params, day) ==
    Once([state |-> recalculate_holdings_and_cost(load_state(file)),
          frames |-> [code \in TARGETS |-> <<>>],
          signals |-> [code \in TARGETS |-> "NoRow"],
          updated |-> 0, last_date_bound |-> FALSE, raised |-> FALSE],
         LAMBDA run : PageLoop(run, data, params, day, 1))

\* A run in which no button is pressed, followed through the reruns that a
\* backfill triggers: if updated_records_count > 0 the state is saved and the
\* script runs again from the saved file.
RECURSIVE page_run(_, _, _, _)
page_run(file, data, params, day) ==
    Once(PageTop(file, data, params, day), LAMBDA top :
        IF top.raised \/ top.updated = 0
        THEN [file |-> file, state |-> top.state, signals |-> top.signals]
        ELSE page_run(save_state(top.state), data, params, day))

\* what a handler leaves: the state dict and whether it called save_state
Unsaved(st) == [state |-> st, save |-> FALSE]
Saved(st) == [state |-> st, save |-> TRUE]

\* find_pe_by_date on the frame of an index, None when it was not loaded,
\* and the saved_pe / saved_close made of it
Lookup(frames, code, date) ==
    IF frames[code] = <<>> THEN NaNPair ELSE find_pe_by_date(frames[code], date)
SavedValue(x) == IF x = NaN THEN None ELSE Round2(x)

\* sum(t.get(f, 0) for t in history) over the positions I
RECURSIVE SumField(_, _, _)
SumField(history, I, f) ==
    IF I = {} THEN RZero
    ELSE LET i == CHOOSE k \in I : TRUE
         IN  RAdd(history[i][f], SumField(history, I \ {i}, f))

\* A register whose Buy tests the cap on the portions held before the trade.
register_cap_before(top, params, code, action, fund_name, date, price, portions) ==
    LET s == top.state[code]
        current_holdings_portions == s.portions_held
        found == Lookup(top.frames, code, date)
        Record(unit) ==
            [date |-> date, type |-> action, pe |-> SavedValue(found.pe),
             close |-> SavedValue(found.Close), price |-> price, unit |-> unit,
             portions |-> R(portions), fund_name |-> fund_name]
        Appended(unit) ==
            Saved(recalculate_holdings_and_cost(
                [top.state EXCEPT ![code].history = Append(@, Record(unit))]))
        bought == {i \in 1..Len(s.history) : s.history[i].type = "Buy"}
        total_bought_shares == SumField(s.history, bought, "unit")
        total_bought_portions == SumField(s.history, bought, "portions")
    IN  IF fund_name = "" THEN Unsaved(top.state)
        ELSE IF top.frames[code] = <<>> THEN Unsaved(top.state)
        ELSE IF found.pe = SeriesObject THEN Unsaved(top.state)
        ELSE IF action = "Buy"
        THEN IF RLeq(current_holdings_portions, R(params.MAX_UNITS))
             THEN Appended(RDiv(RMul(R(portions), FIXED_AMOUNT_PER_PORTION), price))
             ELSE Unsaved(top.state)
        ELSE IF ~(total_bought_portions.n > 0
                  /\ RLess(EPSILON, current_holdings_portions))
        THEN Unsaved(top.state)
        ELSE IF RLeq(R(portions), current_holdings_portions)
        THEN Appended(RMul(R(portions),
                           RDiv(total_bought_shares, total_bought_portions)))
        ELSE Unsaved(top.state)

\* tab_record: the button '提交新记录'
register(top, params, code, action, fund_name, date, price, portions) ==
    LET s == top.state[code]
        current_holdings_portions == s.portions_held
        found == Lookup(top.frames, code, date)
        Record(unit) ==
            [date |-> date, type |-> action, pe |-> SavedValue(found.pe),
             close |-> SavedValue(found.Close), price |-> price, unit |-> unit,
             portions |-> R(portions), fund_name |-> fund_name]
        Appended(unit) ==
            Saved(recalculate_holdings_and_cost(
                [top.state EXCEPT ![code].history = Append(@, Record(unit))]))
        bought == {i \in 1..Len(s.history) : s.history[i].type = "Buy"}
        total_bought_shares == SumField(s.history, bought, "unit")
        total_bought_portions == SumField(s.history, bought, "portions")
    IN  IF fund_name = "" THEN Unsaved(top.state)
        ELSE IF top.frames[code] = <<>> THEN Unsaved(top.state)
        ELSE IF found.pe = SeriesObject THEN Unsaved(top.state)
        ELSE IF action = "Buy"
        THEN IF RLeq(RAdd(current_holdings_portions, R(portions)),
                     R(params.MAX_UNITS))
             THEN Appended(RDiv(RMul(R(portions), FIXED_AMOUNT_PER_PORTION), price))
             ELSE Unsaved(top.state)
        ELSE IF ~(total_bought_portions.n > 0
                  /\ RLess(EPSILON, current_holdings_portions))
        THEN Unsaved(top.state)
        ELSE IF RLeq(R(portions), current_holdings_portions)
        THEN Appended(RMul(R(portions),
                           RDiv(total_bought_shares, total_bought_portions)))
        ELSE Unsaved(top.state)

\* A delete that takes an index past the end for the last record.
delete_record_clamped(top, code, index_to_delete) ==
    LET history == top.state[code].history
    IN  IF history = <<>> THEN Unsaved(top.state)
        ELSE Saved(recalculate_holdings_and_cost(
                 [top.state EXCEPT ![code].history =
                     IF index_to_delete < Len(history)
                     THEN SubSeq(history, 1, index_to_delete)
                          \o SubSeq(history, index_to_delete + 2, Len(history))
                     ELSE SubSeq(history, 1, Len(history) - 1)]))

\* tab_manage: the button '确认删除'
delete_record(top, code, index_to_delete) ==
    LET history == top.state[code].history
    IN  IF history = <<>> THEN Unsaved(top.state)
        ELSE IF 0 <= index_to_delete /\ index_to_delete < Len(history)
        THEN Saved(recalculate_holdings_and_cost(
                 [top.state EXCEPT ![code].history =
                     SubSeq(history, 1, index_to_delete)
                     \o SubSeq(history, index_to_delete + 2, Len(history))]))
        ELSE Unsaved(top.state)

\* tab_manage: the button '确认修改'
modify_record(top, code, index_to_modify, new_type, new_date, new_price, new_portions, new_unit, new_fund_name) ==
    LET history == top.state[code].history
        found == Lookup(top.frames, code, new_date)
        final_unit ==
            IF new_type = "Buy"
            THEN RDiv(RMul(R(new_portions), FIXED_AMOUNT_PER_PORTION), new_price)
            ELSE new_unit
    IN  IF history = <<>> THEN Unsaved(top.state)
        ELSE IF ~(0 <= index_to_modify /\ index_to_modify < Len(history))
        THEN Unsaved(top.state)
        ELSE IF found.pe = SeriesObject THEN Unsaved(top.state)
        ELSE Saved(recalculate_holdings_and_cost(
                 [top.state EXCEPT ![code].history[index_to_modify + 1] =
                     [date |-> new_date, type |-> new_type,
                      pe |-> SavedValue(found.pe),
                      close |-> SavedValue(found.Close),
                      price |-> new_price, unit |-> final_unit,
                      portions |-> R(new_portions),
                      fund_name |-> new_fund_name]]))

\* tab_import, first pass: the transactions collected for one index from the
\* rows of the uploaded table.  A row is skipped when its index is not in
\* TARGETS, its type is neither Buy nor Sell, the frame of the index is not
\* loaded, or an exception is raised (the Series of a repeated date, the
\* division by a price of 0).
RECURSIVE ImportCollect(_, _, _, _)
ImportCollect(rows, i, code, frames) ==
    IF i > Len(rows) THEN <<>>
    ELSE LET row == rows[i]
             found == Lookup(frames, code, row.date_str)
             skipped ==
                 \/ row.index_name # code
                 \/ row.type \notin {"Buy", "Sell"}
                 \/ frames[code] = <<>>
                 \/ found.pe = SeriesObject
                 \/ (row.type = "Buy" /\ row.price.n = 0)
             tx == [date |-> row.date_str, type |-> row.type,
                    pe |-> SavedValue(found.pe), close |-> SavedValue(found.Close),
                    price |-> row.price,
                    unit |-> IF row.type = "Buy"
                             THEN RDiv(FIXED_AMOUNT_PER_PORTION, row.price)
                             ELSE RZero,
                    portions |-> R(1), fund_name |-> row.fund_name]
         IN  (IF skipped THEN <<>> ELSE <<tx>>)
             \o ImportCollect(rows, i + 1, code, frames)

\* tab_import: the button '确认导入' on a table with at least one row
import_records(top, rows) ==
    LET extended ==
            Table([code \in TARGETS |->
                [top.state[code] EXCEPT
                    !.history = @ \o ImportCollect(rows, 1, code, top.frames)]])
    IN  IF extended = top.state THEN Saved(top.state)
        ELSE Saved(recalculate_holdings_and_cost(extended))

---------------------------------------------------------------------------
(* Spec: the page under every sequence of bounded interactions.            *)

\* the cap on the records of all histories together
MaxHist == 2

SeriesRow(date, pe, close) ==
    [Date |-> date, pe |-> pe, pe_percentile |-> Dec(50, 100), Close |-> close]

\* valuation files, rows in date order: none; one starting on day 2; one
\* with a repeated day 1; one with days 1 and 2 and values to be rounded
DataChoices ==
    { <<>>,
      <<SeriesRow(2, R(20), R(3000))>>,
      <<SeriesRow(1, R(10), R(2900)), SeriesRow(1, R(11), R(2900))>>,
      <<SeriesRow(1, Dec(10126, 1000), Dec(29004, 10)), SeriesRow(2, R(20), R(3000))>> }

\* a ledger written by an earlier version: no entry for B, no total_cost and
\* portions_held, a record without portions and fund_name, stored holdings
\* that do not match the history
LegacyFile ==
    [kind |-> "json",
     data |-> [code \in {"A.csv"} |->
                  [holdings |-> RZero,
                   history |-> <<[date |-> 1, type |-> "Buy", pe |-> None,
                                  close |-> None, price |-> R(1),
                                  unit |-> R(300)]>>]]]

ParamChoices ==
    {DEFAULT_STRATEGY_PARAMS, [DEFAULT_STRATEGY_PARAMS EXCEPT !.MAX_UNITS = 1]}

\* the values of the register form: every type, price and number of
\* portions with a fund name, and one request without
Prices == {R(1), R(2)}
PortionChoices == {1, 2}
RegisterRequests ==
    [action : {"Buy", "Sell"}, fund_name : {"F"}, price : Prices,
     portions : PortionChoices]
    \cup {[action |-> "Buy", fund_name |-> "", price |-> R(1), portions |-> 1]}

ImportRow(date, type, price, index_name) ==
    [date_str |-> date, type |-> type, price |-> price, fund_name |-> "F",
     index_name |-> index_name]

\* uploaded tables: a Buy and a Sell of A; a Buy of B with a row of an unknown
\* index; a row of an unknown type; a Buy at price 0
ImportTables ==
    { <<ImportRow(1, "Buy", R(2), "A.csv")>>,
      <<ImportRow(1, "Buy", R(2), "A.csv"), ImportRow(2, "Sell", R(2), "A.csv")>>,
      <<ImportRow(2, "Buy", R(1), "B.csv"), ImportRow(2, "Buy", R(1), "X")>>,
      <<ImportRow(2, "Hold", R(1), "A.csv")>>,
      <<ImportRow(2, "Buy", RZero, "A.csv")>> }

\* the number of records the ledger file holds over all indices
RECURSIVE SumLen(_, _)
SumLen(data, codes) ==
    IF codes = {} THEN 0
    ELSE LET code == CHOOSE c \in codes : TRUE
         IN  Len(data[code].history) + SumLen(data, codes \ {code})

HistoryTotal ==
    IF ledger_file.kind = "json"
    THEN SumLen(ledger_file.data, DOMAIN ledger_file.data)
    ELSE 0

Init ==
    /\ ledger_file \in {AbsentFile, CorruptFile, LegacyFile}
    /\ state = initial_state
    /\ data_files \in [TARGETS -> DataChoices]
    /\ data_files["B.csv"] = <<SeriesRow(2, R(20), R(3000))>>
    /\ strategy_params = DEFAULT_STRATEGY_PARAMS
    /\ today = 2
    /\ file_written = FALSE
    /\ signals = [code \in TARGETS |-> "NoRow"]
    /\ last_run = <<>> /\ persisted = <<>>
    /\ SessIdle
    /\ CostIdle /\ LookupIdle /\ SigIdle /\ MetricsIdle /\ PLIdle

\* the button pressed in a run, with the values of its form
NoButton == [button |-> "none"]

\* the handler the script reaches for the pressed button
handle(top, params, pressed) ==
    CASE pressed.button = "none" -> Unsaved(top.state)
      [] pressed.button = "register" ->
            register(top, params, pressed.code, pressed.action,
                     pressed.fund_name, pressed.date, pressed.price,
                     pressed.portions)
      [] pressed.button = "delete" ->
            delete_record(top, pressed.code, pressed.index_to_delete)
      [] pressed.button = "modify" ->
            modify_record(top, pressed.code, pressed.index_to_modify,
                          pressed.new_type, pressed.new_date, pressed.new_price,
                          pressed.new_portions, pressed.new_unit,
                          pressed.new_fund_name)
      [] pressed.button = "import" -> import_records(top, pressed.rows)

\* One run of the script with the handler of the pressed button.  The
\* handler is reached only if the loop raised nothing and backfilled
\* nothing (else the run saves and reruns before the tabs are drawn); after
\* a save the script reruns from the saved file.  The history variables are
\* left to the action that takes the run.
ScriptRun(params, pressed) ==
    \E top \in {PageTop(ledger_file, data_files, params, today)} :
    \E out \in {IF top.raised THEN Unsaved(top.state)
                ELSE IF top.updated > 0 THEN Saved(top.state)
                ELSE handle(top, params, pressed)} :
    \E end \in {IF out.save
                THEN page_run(save_state(out.state), data_files, params, today)
                ELSE [file |-> ledger_file, state |-> out.state,
                      signals |-> top.signals]} :
        /\ ledger_file' = end.file
        /\ state' = end.state
        /\ signals' = end.signals
        /\ file_written' = (file_written \/ out.save)
        /\ strategy_params' = params
        /\ UNCHANGED <<data_files, today, sessVars, costVars, lookupVars,
                       sigVars, metricsVars, plVars>>

\* the page is opened or refreshed
View == ScriptRun(strategy_params, NoButton) /\ UNCHANGED auditVars

\* sidebar: '保存策略参数并刷新' stores the parameters and reruns
SaveParams(p) == ScriptRun(p, NoButton) /\ UNCHANGED auditVars

Register(code, action, fund_name, date, price, portions) ==
    /\ HistoryTotal < MaxHist
    /\ ScriptRun(strategy_params,
                 [button |-> "register", code |-> code, action |-> action,
                  fund_name |-> fund_name, date |-> date, price |-> price,
                  portions |-> portions])
    /\ UNCHANGED auditVars

Delete(code, index_to_delete) ==
    /\ ScriptRun(strategy_params,
                 [button |-> "delete", code |-> code,
                  index_to_delete |-> index_to_delete])
    /\ UNCHANGED auditVars

Modify(code, index_to_modify, new_type, new_price, new_unit) ==
    /\ ScriptRun(strategy_params,
                 [button |-> "modify", code |-> code,
                  index_to_modify |-> index_to_modify, new_type |-> new_type,
                  new_date |-> today, new_price |-> new_price,
                  new_portions |-> 1, new_unit |-> new_unit,
                  new_fund_name |-> "F"])
    /\ UNCHANGED auditVars

Import(rows) ==
    /\ HistoryTotal + Len(rows) <= MaxHist
    /\ ScriptRun(strategy_params, [button |-> "import", rows |-> rows])
    /\ UNCHANGED auditVars

\* index_data: a newer valuation file of an index is put in place
DataUpload(code, rows) ==
    /\ data_files' = [data_files EXCEPT ![code] = rows]
    /\ UNCHANGED <<ledger_file, state, strategy_params, today, file_written,
                   signals, auditVars, sessVars, costVars, lookupVars, sigVars,
                   metricsVars, plVars>>

Next ==
    \/ View
    \/ \E p \in ParamChoices : SaveParams(p)
    \/ \E code \in TARGETS, r \in RegisterRequests :
           Register(code, r.action, r.fund_name, today, r.price, r.portions)
    \/ \E code \in TARGETS, i \in 0..MaxHist : Delete(code, i)
    \/ \E code \in TARGETS, i \in 0..MaxHist, new_type \in {"Buy", "Sell"} :
           Modify(code, i, new_type, R(1), R(300))
    \/ \E rows \in ImportTables : Import(rows)
    \/ \E rows \in DataChoices : DataUpload("A.csv", rows)

Spec == Init /\ [][Next]_vars

\* holdings and total_cost of every index of st are the replay of its history
Fresh(st) ==
    \A code \in DOMAIN st :
        /\ st[code].holdings = calculate_index_cost(st[code].history).units
        /\ st[code].total_cost = calculate_index_cost(st[code].history).cost

\* C3: after any sequence of ledger operations (load, register, edit,
\* delete, import, backfill), for every index the holdings and total_cost
\* held in the state and those written to the ledger file equal
\* calculate_index_cost of that index's current history.
C3_NeverStale ==
    /\ Fresh(state)
    /\ file_written => (ledger_file.kind = "json" /\ Fresh(ledger_file.data))

\* C3 witness: the written ledger holds for A a Buy and a partial Sell, with
\* units and cost left, and the state of the run is that of the file.
C3_Witness ==
    /\ file_written
    /\ state = ledger_file.data
    /\ Len(state["A.csv"].history) = 2
    /\ state["A.csv"].history[1].type = "Buy"
    /\ state["A.csv"].history[2].type = "Sell"
    /\ state["A.csv"].history[2].unit.n > 0
    /\ state["A.csv"].holdings.n > 0
    /\ state["A.csv"].total_cost.n > 0

---------------------------------------------------------------------------
(* SpecLedger: the page with a record of every run.  last_run holds what   *)
(* the latest run was given and what it found: the pressed button with the *)
(* values of its form, the parameters, the file it read, the outcome       *)
(* `top` of the script down to the end of the loop over TARGETS, whether   *)
(* the tabs were reached, and what the handler of the button returned.     *)
(* persisted holds the histories of the ledger file as last read or        *)
(* written while it was readable.                                          *)

Histories(data) == [code \in DOMAIN data |-> data[code].history]

\* tab_manage: the st.info / st.error / st.success shown for the button
manage_message(top, pressed) ==
    LET history == top.state[pressed.code].history
        index == IF pressed.button = "delete" THEN pressed.index_to_delete
                 ELSE pressed.index_to_modify
    IN  IF history = <<>> THEN "info"
        ELSE IF ~(0 <= index /\ index < Len(history)) THEN "error"
        ELSE IF pressed.button = "modify"
                /\ Lookup(top.frames, pressed.code, pressed.new_date).pe
                       = SeriesObject
        THEN "exception"
        ELSE "success"

NoRun == [pressed |-> NoButton, ran |-> FALSE, reached |-> FALSE]

RunLog(params, pressed) ==
    Once(PageTop(ledger_file, data_files, params, today), LAMBDA top :
        [pressed |-> pressed, ran |-> TRUE, params |-> params,
         file |-> ledger_file, before |-> persisted, top |-> top,
         reached |-> ~top.raised /\ top.updated = 0,
         out |-> IF top.raised THEN Unsaved(top.state)
                 ELSE IF top.updated > 0 THEN Saved(top.state)
                 ELSE handle(top, params, pressed),
         message |-> IF pressed.button \in {"delete", "modify"}
                     THEN manage_message(top, pressed) ELSE ""])

\* the buttons of the three tabs with the values of their forms
RegisterPresses ==
    {[button |-> "register", code |-> code, action |-> r[1],
      fund_name |-> r[2], date |-> 2, price |-> R(1), portions |-> r[3]] :
        code \in TARGETS,
        r \in {<<"Buy", "F", 1>>, <<"Buy", "F", 2>>, <<"Sell", "F", 1>>,
               <<"Buy", "", 1>>}}

DeletePresses ==
    {[button |-> "delete", code |-> "A.csv", index_to_delete |-> i] :
        i \in 0..MaxHist}

ModifyPresses ==
    {[button |-> "modify", code |-> "A.csv", index_to_modify |-> i,
      new_type |-> new_type, new_date |-> 1, new_price |-> R(2),
      new_portions |-> 1, new_unit |-> RZero, new_fund_name |-> "G"] :
        i \in 0..MaxHist, new_type \in {"Buy", "Sell"}}

ImportPresses == {[button |-> "import", rows |-> rows] : rows \in ImportTables}

\* the records a press may add to the ledger
Added(pressed) ==
    IF pressed.button = "register" THEN 1
    ELSE IF pressed.button = "import" THEN Len(pressed.rows)
    ELSE 0

LedgerInit ==
    /\ ledger_file \in {AbsentFile, LegacyFile}
    /\ state = initial_state
    /\ data_files \in [TARGETS -> DataChoices]
    /\ data_files["B.csv"] = <<SeriesRow(2, R(20), R(3000))>>
    /\ strategy_params = DEFAULT_STRATEGY_PARAMS
    /\ today = 2
    /\ file_written = FALSE
    /\ signals = [code \in TARGETS |-> "NoRow"]
    /\ last_run = NoRun
    /\ persisted = Histories(ledger_file.data)
    /\ SessIdle
    /\ CostIdle /\ LookupIdle /\ SigIdle /\ MetricsIdle /\ PLIdle

\* one run of the script with the button pressed, recorded
Press(pressed) ==
    /\ HistoryTotal + Added(pressed) <= MaxHist
    /\ ScriptRun(strategy_params, pressed)
    /\ last_run' = RunLog(strategy_params, pressed)
    /\ persisted' = IF ledger_file'.kind = "json"
                    THEN Histories(ledger_file'.data) ELSE persisted

\* The ledger file is left unreadable: save_state rewrites it in place, and
\* a write that is cut short leaves text that json.load rejects.
FileDamaged ==
    /\ ledger_file.kind = "json"
    /\ ledger_file' = CorruptFile
    /\ last_run' = NoRun
    /\ UNCHANGED <<state, data_files, strategy_params, today, file_written,
                   signals, persisted, sessVars, costVars, lookupVars,
                   sigVars, metricsVars, plVars>>

LedgerNext ==
    \/ Press(NoButton)
    \/ \E pressed \in RegisterPresses : Press(pressed)
    \/ \E pressed \in DeletePresses : Press(pressed)
    \/ \E pressed \in ModifyPresses : Press(pressed)
    \/ \E pressed \in ImportPresses : Press(pressed)
    \/ FileDamaged

SpecLedger == LedgerInit /\ [][LedgerNext]_vars

\* the latest run reached tab_manage with its delete or modify button pressed
ManagePressed ==
    /\ last_run.reached
    /\ last_run.pressed.button \in {"delete", "modify"}

\* the history the manage tab showed, and the position the form named
ManagedHistory == last_run.top.state[last_run.pressed.code].history
ManagedIndex ==
    IF last_run.pressed.button = "delete" THEN last_run.pressed.index_to_delete
    ELSE last_run.pressed.index_to_modify
ManagedInRange == 0 <= ManagedIndex /\ ManagedIndex < Len(ManagedHistory)

\* C11: a delete or an edit that names a position outside
\* 0..len(history)-1 is answered with a message (st.error, or st.info when
\* the history is empty), performs no save, and leaves the state dict as the
\* run loaded it and the ledger file as the run read it.
C11_OutOfRangeNoEffect ==
    (ManagePressed /\ ~ManagedInRange) =>
        /\ last_run.message \in {"error", "info"}
        /\ ~last_run.out.save
        /\ state = last_run.top.state
        /\ ledger_file = last_run.file

\* C11 witness: with one record in the history of A, saved in the file, the
\* delete button was pressed for position 1 and the error was shown.
C11_Witness ==
    /\ ManagePressed
    /\ last_run.pressed.button = "delete"
    /\ last_run.pressed.index_to_delete = 1
    /\ Len(ManagedHistory) = 1
    /\ last_run.message = "error"
    /\ last_run.file.kind = "json"
    /\ Len(state["A.csv"].history) = 1

\* a record cut down to its type, unit and price
TypeUnitPrice(t) == [f \in DOMAIN t \cap {"type", "unit", "price"} |-> t[f]]

\* a state dict with other stored holdings and costs, and one with every
\* record of every history cut down to type, unit and price
WithStored(st, units, cost) ==
    [code \in DOMAIN st |->
        [st[code] EXCEPT !.holdings = units, !.total_cost = cost]]
WithoutDates(st) ==
    [code \in DOMAIN st |->
        [st[code] EXCEPT
            !.history = [i \in 1..Len(@) |-> TypeUnitPrice(@[i])]]]

Recomputed(st) ==
    [code \in DOMAIN st |->
        [holdings |-> recalculate_holdings_and_cost(st)[code].holdings,
         total_cost |-> recalculate_holdings_and_cost(st)[code].total_cost]]

\* C12: recalculate_holdings_and_cost leaves every history as it is, yields
\* the same state when applied twice as when applied once, and the holdings
\* and total_cost it yields are those it yields from the same histories cut
\* down to (type, unit, price) in list order, whatever holdings and
\* total_cost the state held before.
C12_PureFold ==
    LET once == recalculate_holdings_and_cost(state)
    IN  /\ recalculate_holdings_and_cost(once) = once
        /\ Histories(once) = Histories(state)
        /\ Recomputed(WithoutDates(state)) = Recomputed(state)
        /\ Recomputed(WithStored(state, R(7), R(9))) = Recomputed(state)
        /\ Recomputed(WithStored(state, RZero, RZero)) = Recomputed(state)

\* C12 witness: a run has recomputed and saved the state, in which A holds a
\* Buy and a later Sell of different dates and a position is left.
C12_Witness ==
    /\ last_run.ran
    /\ last_run.out.save
    /\ Len(state["A.csv"].history) = 2
    /\ state["A.csv"].history[1].type = "Buy"
    /\ state["A.csv"].history[2].type = "Sell"
    /\ state["A.csv"].history[1].date # state["A.csv"].history[2].date
    /\ state["A.csv"].holdings.n > 0

\* the histories and holdings of a state dict
LedgerOf(st) ==
    [code \in DOMAIN st |->
        [history |-> st[code].history, holdings |-> st[code].holdings]]

\* C13: the strategy parameters never reach the ledger: whatever the run
\* loaded and whichever register, delete or modify button was pressed, the
\* handler leaves the same histories and holdings, and makes the same save,
\* under every setting of the parameters; whether a requested Buy is
\* appended does not depend on MAX_UNITS.
C13_ParamsNeverReachLedger ==
    (last_run.reached
     /\ last_run.pressed.button \in {"register", "delete", "modify"}) =>
        \A p \in ParamChoices :
            /\ LedgerOf(handle(last_run.top, p, last_run.pressed).state)
                   = LedgerOf(last_run.out.state)
            /\ handle(last_run.top, p, last_run.pressed).save
                   = last_run.out.save

\* the same transaction, whatever pe, close, portions and fund_name hold
SameTrade(t, u) ==
    /\ t.date = u.date /\ t.type = u.type
    /\ t.price = u.price /\ t.unit = u.unit

\* every transaction of history old is in history new at its position
Kept(old, new) ==
    /\ Len(old) <= Len(new)
    /\ \A i \in 1..Len(old) : SameTrade(old[i], new[i])

\* C14: unless the run's delete or modify button named a position of the
\* history, every transaction the ledger file held when last readable is
\* still in its index's history in the state dict after the run, and in the
\* ledger file if the run saved; also when the file the run read was
\* unreadable as JSON.
C14_NeverRemovedAutomatically ==
    (last_run.ran /\ ~(ManagePressed /\ ManagedInRange)) =>
        \A code \in DOMAIN last_run.before :
            /\ Kept(last_run.before[code], state[code].history)
            /\ last_run.out.save =>
                   Kept(last_run.before[code], ledger_file.data[code].history)

\* every transaction of every history of a state dict has a positive unit
\* and a positive price
AllPositive(st) ==
    \A code \in DOMAIN st :
        \A i \in 1..Len(st[code].history) :
            /\ st[code].history[i].unit.n > 0
            /\ st[code].history[i].price.n > 0

\* C15: after any sequence of register, edit and bulk-import operations
\* every transaction in any history, in the state dict and in the ledger
\* file, has unit > 0 and price > 0.
C15_PositiveUnitAndPrice ==
    /\ AllPositive(state)
    /\ ledger_file.kind = "json" => AllPositive(ledger_file.data)

\* the record the modify form describes: every field from the form and the
\* valuation lookup of the new date
FormRecord(run) ==
    LET f == run.pressed
        found == Lookup(run.top.frames, f.code, f.new_date)
    IN  [date |-> f.new_date, type |-> f.new_type,
         pe |-> SavedValue(found.pe), close |-> SavedValue(found.Close),
         price |-> f.new_price,
         unit |-> IF f.new_type = "Buy"
                  THEN RDiv(RMul(R(f.new_portions), FIXED_AMOUNT_PER_PORTION),
                            f.new_price)
                  ELSE f.new_unit,
         portions |-> R(f.new_portions), fund_name |-> f.new_fund_name]

\* history without the entry at position i (counted from 1)
Without(history, i) ==
    SubSeq(history, 1, i - 1) \o SubSeq(history, i + 1, Len(history))

\* C20: a valid edit at position i replaces the whole record at position i
\* by the record of the form, and a valid delete at position i removes
\* exactly that entry; every other entry of that history is unchanged and in
\* its place, the histories of all other indices are unchanged, holdings
\* and cost are recomputed, and the state is saved.
C20_EditDeleteFrame ==
    (ManagePressed /\ ManagedInRange) =>
        LET code == last_run.pressed.code
            i == ManagedIndex + 1
            after == state[code].history
        IN  /\ last_run.out.save
            /\ ledger_file = save_state(state)
            /\ Fresh(state)
            /\ \A other \in TARGETS \ {code} :
                   state[other].history = last_run.top.state[other].history
            /\ IF last_run.pressed.button = "delete"
               THEN after = Without(ManagedHistory, i)
               ELSE /\ Len(after) = Len(ManagedHistory)
                    /\ after[i] = FormRecord(last_run)
                    /\ Without(after, i) = Without(ManagedHistory, i)

\* the valuation series the loop gives the backfill for an index, whether it
\* holds an observation dated on or before a date, and the latest such row
ValuationSeries(code) == dropna(data_files[code])
ObservedBy(df, date) == \E i \in 1..Len(df) : df[i].Date <= date
ForwardFill(df, date) ==
    LET upto == {i \in 1..Len(df) : df[i].Date <= date}
        i == CHOOSE k \in upto :
                 \A j \in upto : df[j].Date < df[k].Date
                                 \/ (df[j].Date = df[k].Date /\ j <= k)
    IN  [pe |-> Round2(df[i].pe), close |-> Round2(df[i].Close)]

\* a transaction whose pe or close is null
MissingMetadata(t) == t.pe = None \/ t.close = None

\* the state dict load_state makes of the file the latest run read
LoadedState == load_state(last_run.file)

\* C21: after an application load (a run with no button pressed), every
\* transaction the ledger file held with a null pe or close has, if the
\* valuation series of its index holds an observation dated on or before the
\* transaction date, the forward-fill pe and close of its date rounded to 2
\* decimals, in the state dict and in the ledger file; if the series holds
\* no such observation, the transaction is as it was loaded.
C21_BackfillFills ==
    (last_run.ran /\ last_run.pressed = NoButton) =>
        \A code \in TARGETS :
            \A i \in 1..Len(LoadedState[code].history) :
                LET t == LoadedState[code].history[i]
                    df == ValuationSeries(code)
                IN  MissingMetadata(t) =>
                        IF ObservedBy(df, t.date)
                        THEN /\ state[code].history[i]
                                    = [t EXCEPT !.pe = ForwardFill(df, t.date).pe,
                                                !.close = ForwardFill(df, t.date).close]
                             /\ ledger_file.kind = "json"
                             /\ ledger_file.data[code].history[i]
                                    = state[code].history[i]
                        ELSE state[code].history[i] = t

---------------------------------------------------------------------------
(* SpecSessions: script runs that overlap.  Streamlit runs the script of   *)
(* every browser session in a thread of its own, and the ledger file is    *)
(* read and written without a lock.  A run is cut at its file operations:  *)
(* load_state at the top of the script, the handler of the register        *)
(* button (append, recalculate), and the three steps of save_state:        *)
(* open(STATE_FILE, 'w'), which truncates the file, json.dump, and the     *)
(* close at the end of the with block.  Any strict prefix of the dumped    *)
(* text does not parse as JSON.  A run can be ended between the open and   *)
(* the close (the process is stopped).  When two runs have the file open   *)
(* at the same time their chunks land in the same bytes, and the file      *)
(* after the later close is the text of that run or unreadable.            *)

Sessions == {1, 2}

\* the cap on the records of all histories of a state dict together
MaxSessHist == 2

\* a file whose text is a strict prefix of a dump, or mixed chunks
TornFile == [kind |-> "partial", data |-> initial_state]

\* the fund name a session types into the register form
FundOf(s) == IF s = 1 THEN "F1" ELSE "F2"

\* the register forms a session submits: a Buy of A, a Buy of B, a Sell of A
SessRequests(s) ==
    {[code |-> r[1], action |-> r[2], fund_name |-> FundOf(s), date |-> 2,
      price |-> R(1), portions |-> 1] :
        r \in {<<"A.csv", "Buy">>, <<"B.csv", "Buy">>, <<"A.csv", "Sell">>}}

IdleSession ==
    [pc |-> "idle", base |-> <<>>, top |-> <<>>, req |-> <<>>,
     pending |-> <<>>, overlapped |-> FALSE]

NoWrite ==
    [opened_by |-> 0, old |-> AbsentFile, new |-> AbsentFile, closed_by |-> 0]

SessInit ==
    /\ ledger_file = AbsentFile
    /\ state = initial_state
    /\ data_files = [code \in TARGETS |-> <<SeriesRow(2, R(20), R(3000))>>]
    /\ strategy_params = DEFAULT_STRATEGY_PARAMS
    /\ today = 2
    /\ file_written = FALSE
    /\ signals = [code \in TARGETS |-> "NoRow"]
    /\ last_run = <<>> /\ persisted = <<>>
    /\ session = [s \in Sessions |-> IdleSession]
    /\ write_log = NoWrite
    /\ CostIdle /\ LookupIdle /\ SigIdle /\ MetricsIdle /\ PLIdle

SessFrame ==
    UNCHANGED <<state, data_files, strategy_params, today, file_written,
                signals, auditVars, costVars, lookupVars, sigVars,
                metricsVars, plVars>>

\* the script from load_state to the end of the loop over TARGETS; a
\* backfill goes on to save_state, otherwise the tabs are drawn
SessLoad(s) ==
    /\ session[s].pc = "idle"
    /\ \E top \in {PageTop(ledger_file, data_files, strategy_params, today)} :
           session' = [session EXCEPT ![s] =
               [pc |-> IF top.raised THEN "idle"
                       ELSE IF top.updated > 0 THEN "save" ELSE "tabs",
                base |-> ledger_file, top |-> top, req |-> <<>>,
                pending |-> IF ~top.raised /\ top.updated > 0
                            THEN top.state ELSE <<>>,
                overlapped |-> FALSE]]
    /\ UNCHANGED <<ledger_file, write_log>>
    /\ SessFrame

\* A submit that reads the ledger file again before it appends.
SessSubmitReread(s, req) ==
    /\ session[s].pc = "tabs"
    /\ SumLen(session[s].top.state, TARGETS) < MaxSessHist
    /\ \E top \in {PageTop(ledger_file, data_files, strategy_params, today)} :
       \E out \in {register(top, strategy_params, req.code, req.action,
                            req.fund_name, req.date, req.price, req.portions)} :
           session' = [session EXCEPT ![s] =
               IF out.save
               THEN [@ EXCEPT !.pc = "save", !.req = req, !.pending = out.state]
               ELSE [@ EXCEPT !.pc = "idle", !.top = <<>>]]
    /\ UNCHANGED <<ledger_file, write_log>>
    /\ SessFrame

\* tab_record: the button is pressed; the handler appends and recalculates
\* on the state dict this run loaded, then calls save_state or reruns
SessSubmit(s, req) ==
    /\ session[s].pc = "tabs"
    /\ SumLen(session[s].top.state, TARGETS) < MaxSessHist
    /\ \E out \in {register(session[s].top, strategy_params, req.code,
                            req.action, req.fund_name, req.date, req.price,
                            req.portions)} :
           session' = [session EXCEPT ![s] =
               IF out.save
               THEN [@ EXCEPT !.pc = "save", !.req = req, !.pending = out.state]
               ELSE [@ EXCEPT !.pc = "idle", !.top = <<>>]]
    /\ UNCHANGED <<ledger_file, write_log>>
    /\ SessFrame

\* save_state: open(STATE_FILE, 'w') leaves the file empty
SessOpen(s) ==
    /\ session[s].pc = "save"
    /\ ledger_file' = TornFile
    /\ session' =
           [r \in Sessions |->
               IF r = s
               THEN [session[r] EXCEPT
                        !.pc = "dump",
                        !.overlapped = \E o \in Sessions : session[o].pc = "dump"]
               ELSE IF session[r].pc = "dump"
               THEN [session[r] EXCEPT !.overlapped = TRUE]
               ELSE session[r]]
    /\ write_log' = [opened_by |-> s, old |-> ledger_file,
                     new |-> save_state(session[s].pending), closed_by |-> 0]
    /\ SessFrame

\* save_state: json.dump has written every chunk and the file is closed;
\* the script reruns
SessClose(s) ==
    /\ session[s].pc = "dump"
    /\ ledger_file' \in {save_state(session[s].pending)}
                        \cup (IF session[s].overlapped THEN {TornFile} ELSE {})
    /\ session' = [session EXCEPT ![s].pc = "idle", ![s].top = <<>>]
    /\ write_log' = [write_log EXCEPT !.closed_by = s]
    /\ SessFrame

\* the run is ended between the open and the close
SessKill(s) ==
    /\ session[s].pc = "dump"
    /\ session' = [session EXCEPT ![s].pc = "killed", ![s].top = <<>>]
    /\ UNCHANGED <<ledger_file, write_log>>
    /\ SessFrame

SessNext ==
    \/ \E s \in Sessions : SessLoad(s)
    \/ \E s \in Sessions : \E req \in SessRequests(s) : SessSubmit(s, req)
    \/ \E s \in Sessions : SessOpen(s)
    \/ \E s \in Sessions : SessClose(s)
    \/ \E s \in Sessions : SessKill(s)

SpecSessions == SessInit /\ [][SessNext]_vars

\* C22: persistence writes are atomic: when a run was ended between the
\* open and the close of save_state, and no other run had the file open
\* meanwhile or has opened it since, load_state reads from the ledger file
\* either the ledger as it was before the write or the ledger being written.
C22_AtomicWrites ==
    \A s \in Sessions :
        (/\ session[s].pc = "killed"
         /\ write_log.opened_by = s
         /\ ~session[s].overlapped) =>
            load_state(ledger_file)
                \in {load_state(write_log.old), load_state(write_log.new)}

\* a session has completed a register cycle (load, append, recalculate,
\* save) and has not loaded again
CycleDone(s) ==
    /\ session[s].pc = "idle"
    /\ session[s].req # <<>>
    /\ session[s].pending # <<>>

\* the records of a state dict that carry the fund name of a session
RecordsOf(st, s) ==
    {<<code, i>> \in TARGETS \X (1..MaxSessHist) :
        /\ i <= Len(st[code].history)
        /\ st[code].history[i].fund_name = FundOf(s)}

\* both sessions have completed a register cycle on the same loaded ledger,
\* and the file is readable
BothCyclesOverlapped ==
    /\ \A s \in Sessions : CycleDone(s)
    /\ session[1].base = session[2].base
    /\ ledger_file.kind = "json"

\* C23: two read-modify-write cycles that both loaded the ledger before
\* either saved lose an update: once both have completed, the ledger file
\* is the state dict of the cycle that closed last, which holds that
\* cycle's appended transaction and one record more than the ledger both
\* loaded, and the transaction the other cycle appended is not in it.
C23_LostUpdate ==
    BothCyclesOverlapped =>
        LET last == write_log.closed_by
            other == CHOOSE o \in Sessions : o # last
            loaded == load_state(session[last].base)
        IN  /\ ledger_file = save_state(session[last].pending)
            /\ SumLen(ledger_file.data, TARGETS) = SumLen(loaded, TARGETS) + 1
            /\ Cardinality(RecordsOf(ledger_file.data, last))
                   = Cardinality(RecordsOf(loaded, last)) + 1
            /\ RecordsOf(ledger_file.data, other) = RecordsOf(loaded, other)

\* C23 witness: both sessions loaded the empty ledger, session 1 appended a
\* Buy of A and saved, session 2 appended a Buy of B and saved after it; the
\* file holds the Buy of B only.
C23_Witness ==
    /\ BothCyclesOverlapped
    /\ session[1].base = AbsentFile
    /\ session[1].req.code = "A.csv"
    /\ session[2].req.code = "B.csv"
    /\ write_log.closed_by = 2
    /\ ledger_file.data["A.csv"].history = <<>>
    /\ Len(ledger_file.data["B.csv"].history) = 1

\* a transaction without its pe and close
ButPeClose(t) == [f \in DOMAIN t \ {"pe", "close"} |-> t[f]]

\* what the backfill of one run may differ in: entry i of the history of an
\* index before and after the loop over TARGETS
BackfillFrame(before, after) ==
    /\ Len(after) = Len(before)
    /\ \A i \in 1..Len(before) :
           /\ ButPeClose(after[i]) = ButPeClose(before[i])
           /\ ~MissingMetadata(before[i]) => after[i] = before[i]

\* C25: the backfill of a run changes only pe and close of the entries that
\* had a null pe or close: every history keeps its length and order and
\* every entry its other fields, holdings, total_cost and portions_held of
\* every index are as load_state computed them, and a second pass over the
\* result against the same valuation files fills nothing and changes nothing.
C25_BackfillFrame ==
    last_run.ran =>
        /\ \A code \in TARGETS :
               /\ BackfillFrame(LoadedState[code].history,
                                last_run.top.state[code].history)
               /\ last_run.top.state[code].holdings = LoadedState[code].holdings
               /\ last_run.top.state[code].total_cost
                      = LoadedState[code].total_cost
               /\ last_run.top.state[code].portions_held
                      = LoadedState[code].portions_held
        /\ \E again \in {PageTop(save_state(last_run.top.state), data_files,
                                 last_run.params, today)} :
               /\ again.state = last_run.top.state
               /\ again.updated = 0

\* C25 witness: the run loaded for A a Buy with null pe and close and the
\* backfill filled both from the valuation series.
C25_Witness ==
    /\ last_run.ran
    /\ last_run.top.updated = 1
    /\ Len(LoadedState["A.csv"].history) = 1
    /\ MissingMetadata(LoadedState["A.csv"].history[1])
    /\ last_run.top.state["A.csv"].history[1].pe = Dec(1013, 100)
    /\ last_run.top.state["A.csv"].history[1].close = Dec(29004, 10)
    /\ last_run.top.state["A.csv"].holdings = R(300)

---------------------------------------------------------------------------
(* SpecRegister: the page from an empty ledger under register operations   *)
(* only, with the strategy parameters fixed for the whole behaviour.       *)

\* the cap on the records of all histories together
MaxRegHist == 4

\* valuation files of A: pe 30 then 20; pe 30 then 0.014, which round(pe, 2)
\* stores as 0.01
RegDataChoices ==
    { <<SeriesRow(1, R(30), R(2900)), SeriesRow(2, R(20), R(3000))>>,
      <<SeriesRow(1, R(30), R(2900)), SeriesRow(2, Dec(14, 1000), R(3000))>> }

RegParamChoices ==
    {[DEFAULT_STRATEGY_PARAMS EXCEPT !.MAX_UNITS = m] : m \in {1, 2}}

\* the register forms: for A, Buys of 1 portion at prices 1 and 2 and of 2
\* portions at price 1 dated today, a Buy of 1 portion at price 600 dated
\* before the first observation, Sells of 1 and 2 portions, and a Buy
\* without a fund name; for B a Buy and a Sell of 1 portion
RegPresses ==
    {[button |-> "register", code |-> r[1], action |-> r[2],
      fund_name |-> r[3], date |-> r[4], price |-> r[5], portions |-> r[6]] :
        r \in {<<"A.csv", "Buy", "F", 2, R(1), 1>>,
               <<"A.csv", "Buy", "F", 2, R(2), 1>>,
               <<"A.csv", "Buy", "F", 2, R(1), 2>>,
               <<"A.csv", "Buy", "F", 0, R(600), 1>>,
               <<"A.csv", "Sell", "F", 2, R(1), 1>>,
               <<"A.csv", "Sell", "F", 2, R(1), 2>>,
               <<"A.csv", "Buy", "", 2, R(1), 1>>,
               <<"B.csv", "Buy", "F", 2, R(1), 1>>,
               <<"B.csv", "Sell", "F", 2, R(1), 1>>}}

RegInit ==
    /\ ledger_file = AbsentFile
    /\ state = initial_state
    /\ data_files \in [TARGETS -> RegDataChoices \cup {<<SeriesRow(2, R(20), R(3000))>>}]
    /\ data_files["A.csv"] \in RegDataChoices
    /\ data_files["B.csv"] = <<SeriesRow(2, R(20), R(3000))>>
    /\ strategy_params \in RegParamChoices
    /\ today = 2
    /\ file_written = FALSE
    /\ signals = [code \in TARGETS |-> "NoRow"]
    /\ last_run = NoRun
    /\ persisted = Histories(ledger_file.data)
    /\ SessIdle
    /\ CostIdle /\ LookupIdle /\ SigIdle /\ MetricsIdle /\ PLIdle

\* one run of the script with the register button pressed, recorded
Submit(pressed) ==
    /\ HistoryTotal < MaxRegHist
    /\ ScriptRun(strategy_params, pressed)
    /\ last_run' = RunLog(strategy_params, pressed)
    /\ persisted' = IF ledger_file'.kind = "json"
                    THEN Histories(ledger_file'.data) ELSE persisted

\* the page is loaded again
Reload ==
    /\ ScriptRun(strategy_params, NoButton)
    /\ last_run' = RunLog(strategy_params, NoButton)
    /\ persisted' = IF ledger_file'.kind = "json"
                    THEN Histories(ledger_file'.data) ELSE persisted

RegNext ==
    \/ \E pressed \in RegPresses : Submit(pressed)
    \/ Reload

SpecRegister == RegInit /\ [][RegNext]_vars

\* the latest run reached tab_record with its button pressed
RegisterPressed ==
    /\ last_run.reached
    /\ last_run.pressed.button = "register"

\* the index of the form, its entry as the run loaded it, and whether the
\* run appended a transaction to its history
RegisteredCode == last_run.pressed.code
RegisteredBefore == last_run.top.state[RegisteredCode]
RegisterAppended ==
    Len(state[RegisteredCode].history) = Len(RegisteredBefore.history) + 1

\* 0 <= portions_held <= MAX_UNITS for every index of a state dict
WithinCap(st) ==
    \A code \in DOMAIN st :
        /\ RLeq(RZero, st[code].portions_held)
        /\ RLeq(st[code].portions_held, R(strategy_params.MAX_UNITS))

\* C27: from an empty ledger, under register operations with MAX_UNITS
\* fixed, 0 <= portions_held <= MAX_UNITS for every index, in the state dict
\* and in the ledger file; a Buy of p portions is appended only if
\* portions_held + p <= MAX_UNITS and a Sell of p portions only if
\* portions_held >= p; a request that is not appended leaves the state dict
\* as the run loaded it and the ledger file as the run read it.
C27_PortionsWithinCap ==
    /\ WithinCap(state)
    /\ ledger_file.kind = "json" => WithinCap(ledger_file.data)
    /\ RegisterPressed =>
           LET p == R(last_run.pressed.portions)
               held == RegisteredBefore.portions_held
           IN  IF RegisterAppended
               THEN /\ last_run.pressed.action = "Buy" =>
                           RLeq(RAdd(held, p), R(strategy_params.MAX_UNITS))
                    /\ last_run.pressed.action = "Sell" => RLeq(p, held)
                    /\ state[RegisteredCode].history[Len(state[RegisteredCode].history)].type
                           = last_run.pressed.action
               ELSE /\ ~last_run.out.save
                    /\ state = last_run.top.state
                    /\ ledger_file = last_run.file

\* C27 witness: with MAX_UNITS = 2 and two portions of A held, a Buy of one
\* more portion was requested and not appended.
C27_Witness ==
    /\ RegisterPressed
    /\ strategy_params.MAX_UNITS = 2
    /\ RegisteredCode = "A.csv"
    /\ last_run.pressed.action = "Buy"
    /\ last_run.pressed.fund_name = "F"
    /\ RegisteredBefore.portions_held = R(2)
    /\ ~RegisterAppended
    /\ state["A.csv"].portions_held = R(2)

\* C28: the two position counters of an index agree on emptiness: in every
\* state reached from the empty ledger by register operations, for every
\* index portions_held = 0 if and only if holdings = 0.
C28_CountersAgreeOnEmptiness ==
    \A code \in TARGETS :
        (state[code].portions_held = RZero) <=> (state[code].holdings = RZero)

\* tab_record's cap test for a Buy of one portion of an index
BuyOfOneAccepted(code) ==
    RLeq(RAdd(state[code].portions_held, R(1)), R(strategy_params.MAX_UNITS))

\* C29: the cap test of the signal and the cap test of tab_record agree:
\* whenever the signal of an index is the uncapped SuggestBuy a Buy of one
\* portion of it passes tab_record's cap test, and whenever a Buy of one
\* portion would exceed MAX_UNITS the signal is not the uncapped SuggestBuy.
C29_CapTestsAgree ==
    \A code \in TARGETS :
        /\ signals[code] = "SuggestBuy" => BuyOfOneAccepted(code)
        /\ ~BuyOfOneAccepted(code) => signals[code] # "SuggestBuy"

\* the run registered a transaction dated today whose stored pe is non-null,
\* for an index whose 3-year average is valid, with MIN_INTERVAL_DAYS >= 1
RegisteredToday ==
    /\ RegisterPressed
    /\ RegisterAppended
    /\ last_run.pressed.date = today
    /\ strategy_params.MIN_INTERVAL_DAYS >= 1
    /\ HasPe(state[RegisteredCode].history[Len(state[RegisteredCode].history)])
    /\ \E m \in {get_metrics_from_csv(ValuationSeries(RegisteredCode))} :
           m.avg_3yr # NaN /\ m.avg_3yr # RZero

\* C30: registering a trade starts the cooldown: after a run that registered
\* a transaction dated today with a non-null pe, for an index with a valid
\* avg_3yr and MIN_INTERVAL_DAYS >= 1, the evaluation that follows the save
\* gives that index the signal SuppressedByCooldown.
C30_RegisterStartsCooldown ==
    RegisteredToday => signals[RegisteredCode] = "SuppressedByCooldown"

====
